---- MODULE Spec2Model ----
(***************************************************************************)
(* Model of the mafia-lite game core: the pure engine reducers             *)
(* (packages/engine), the policy gate and the socket command handlers of   *)
(* the backend with the room store they commit to.                         *)
(*                                                                         *)
(* Ids are naturals; 0 (None) stands for undefined / null.  A JavaScript   *)
(* object used as a map (nightActions, votes) is a sequence of records in  *)
(* insertion order, which is the order Object.values() yields.             *)
(***************************************************************************)
EXTENDS Integers, Sequences, FiniteSets, TLC

VARIABLES
  store,    \* the room state held by the room store (room:<id> state field)
  h,        \* per socket: the command handler in flight and its locals
  sock,     \* per socket: currentPlayerId (0 = null)
  dedup,    \* action dedup records, keyed by <<actionId, playerId>>
  acked,    \* action.ack events emitted: set of [playerId, actionId]
  now,      \* Date.now()
  nextId,   \* the next id generateId() yields (ids are never reused)
  sent,     \* number of action.submit / vote.cast commands received so far
  voteOut,  \* what the vote.cast handler last emitted, with the command it answers
  inbox,    \* per socket: the room.snapshot events a broadcast delivered to it
  ackOut,   \* the action.ack last emitted, with its socket and the command it answers
  lease,    \* the room:<id>:leader key: the instance it names and whether it has an expiry
  inst,     \* per server instance: its renewal interval and the call in flight
  written,  \* room commits made: the committing instance and the lease holder then
  session,  \* the session store: per player the sessionId and the bound socket id
  conn,     \* per socket: open, closing (disconnect event pending) or closed
  evicted,  \* sockets that were sent session.evicted
  resumeOut, \* what the session.resume handler last emitted, with its socket
  roomKey,  \* per room id: the room:<id> key (absent, being created, stored) and its TTL
  codeKey,  \* per room code: the room_code:<code> key, the room id it holds and its TTL
  est,      \* engine harness: the RoomState handed to a reducer
  eres,     \* engine harness: the reducer's result
  epc       \* engine harness: position

roomVars == <<store, h, sock, dedup, acked, now, nextId, sent, voteOut, inbox, ackOut>>
leaderVars == <<lease, inst, written>>
sessionVars == <<session, conn, evicted, resumeOut>>
keyVars == <<roomKey, codeKey>>
serverVars == <<store, h, sock, dedup, acked, now, nextId, sent, voteOut, inbox, ackOut,
               lease, inst, written, session, conn, evicted, resumeOut,
               roomKey, codeKey>>
engineVars == <<est, eres, epc>>
vars == <<store, h, sock, dedup, acked, now, nextId, sent, voteOut, inbox, ackOut,
         lease, inst, written, session, conn, evicted, resumeOut,
         roomKey, codeKey, est, eres, epc>>

None == 0

\* ------------------------------------------------------------------------
\* Bounds of the model

MaxNightActions == 2      \* entries inserted into nightActions (engine harness)
MaxPlayers == 5           \* settings.maxPlayers, scaled down from createRoom's 15
MaxSubmits == 2           \* action.submit commands received in one run
MaxActionId == 2          \* client-chosen action ids are 1..MaxActionId
MaxTargetId == 3          \* client-chosen target ids are 1..MaxTargetId
ShuffleChoices == 2       \* outcomes of the start-game shuffle that are explored
MaxClock == 1             \* Date.now() ranges over 0..MaxClock
MaxVotes == 5             \* entries inserted into votes (engine harness)
MaxResolutions == 2
MaxKeyTicks == 3          \* half-days the key clock runs
IdleTtl == 2              \* the 86400 s expiry of room and code keys, in half-days
MaxRolePlayers == 9       \* night / voting resolutions in one run (engine harness)

\* ------------------------------------------------------------------------
\* Program constants

MinPlayers == 5           \* settings.minPlayers set by createRoom
NightDurationMs == 90000  \* settings.nightDurationMs set by createRoom

\* ------------------------------------------------------------------------
\* Generic helpers

Range(f) == {f[x] : x \in DOMAIN f}

RECURSIVE SeqSum(_)
SeqSum(s) == IF s = <<>> THEN 0 ELSE Head(s) + SeqSum(Tail(s))

\* all orderings of the elements of a sequence (as sequences)
Perms(s) ==
  LET n == Len(s)
      bij == {f \in [1..n -> 1..n] : \A i, j \in 1..n : i # j => f[i] # f[j]}
  IN  {[i \in 1..n |-> s[f[i]]] : f \in bij}

\* ------------------------------------------------------------------------
\* Narrative lines.  `${name} was eliminated during the night.` is the pair
\* of the interpolated name and the fixed text.

NoOneDiedLine == [who |-> "", text |-> "No one died during the night."]
EliminatedLine(name) == [who |-> name, text |-> "was eliminated during the night."]

\* ------------------------------------------------------------------------
\* Night resolution (packages/engine/src/reducers/night-resolution.ts)

PriorityOf(type) == IF type = "KILL" THEN 10 ELSE IF type = "PROTECT" THEN 20 ELSE 30

\* Array.prototype.sort((a, b) => a.priority - b.priority): a stable sort
RECURSIVE InsertByPriority(_, _)
InsertByPriority(sorted, a) ==
  IF sorted = <<>> THEN <<a>>
  ELSE IF Head(sorted).priority - a.priority > 0
       THEN <<a>> \o sorted
       ELSE <<Head(sorted)>> \o InsertByPriority(Tail(sorted), a)

RECURSIVE SortByPriority(_)
SortByPriority(actions) ==
  IF actions = <<>> THEN <<>>
  ELSE InsertByPriority(SortByPriority(SubSeq(actions, 1, Len(actions) - 1)),
                        actions[Len(actions)])

HasPlayer(state, id) == id \in DOMAIN state.players

\* mutant: the queued id is the actor's instead of the target's
processKillAction_actor(state, action) ==
  IF ~HasPlayer(state, action.targetId) THEN None
  ELSE IF state.players[action.targetId].status # "alive" THEN None
  ELSE IF ~HasPlayer(state, action.playerId) THEN None
  ELSE IF \/ state.players[action.playerId].status # "alive"
          \/ state.players[action.playerId].alignment # "mafia" THEN None
  ELSE action.playerId

processKillAction(state, action) ==
  IF ~HasPlayer(state, action.targetId) THEN None
  ELSE IF state.players[action.targetId].status # "alive" THEN None
  ELSE IF ~HasPlayer(state, action.playerId) THEN None
  ELSE IF \/ state.players[action.playerId].status # "alive"
          \/ state.players[action.playerId].alignment # "mafia" THEN None
  ELSE action.targetId

\* mutant: the actor's role is not checked
processProtectAction_anyRole(state, action, queuedKillTarget) ==
  IF ~HasPlayer(state, action.targetId) THEN queuedKillTarget
  ELSE IF state.players[action.targetId].status # "alive" THEN queuedKillTarget
  ELSE IF ~HasPlayer(state, action.playerId) THEN queuedKillTarget
  ELSE IF state.players[action.playerId].status # "alive" THEN queuedKillTarget
  ELSE IF queuedKillTarget = action.targetId THEN None
  ELSE queuedKillTarget

processProtectAction(state, action, queuedKillTarget) ==
  IF ~HasPlayer(state, action.targetId) THEN queuedKillTarget
  ELSE IF state.players[action.targetId].status # "alive" THEN queuedKillTarget
  ELSE IF ~HasPlayer(state, action.playerId) THEN queuedKillTarget
  ELSE IF \/ state.players[action.playerId].status # "alive"
          \/ state.players[action.playerId].roleId # "doctor" THEN queuedKillTarget
  ELSE IF queuedKillTarget = action.targetId THEN None
  ELSE queuedKillTarget

\* mutant: the actor's role is not checked
processInvestigateAction_anyRole(state, action) ==
  IF ~HasPlayer(state, action.targetId) THEN <<>>
  ELSE IF state.players[action.targetId].status # "alive" THEN <<>>
  ELSE IF ~HasPlayer(state, action.playerId) THEN <<>>
  ELSE IF state.players[action.playerId].status # "alive" THEN <<>>
  ELSE << [targetId |-> action.targetId,
           isMafia |-> state.players[action.targetId].alignment = "mafia",
           investigatorId |-> action.playerId] >>

\* returns <<>> for undefined, <<result>> otherwise
processInvestigateAction(state, action) ==
  IF ~HasPlayer(state, action.targetId) THEN <<>>
  ELSE IF state.players[action.targetId].status # "alive" THEN <<>>
  ELSE IF ~HasPlayer(state, action.playerId) THEN <<>>
  ELSE IF \/ state.players[action.playerId].status # "alive"
          \/ state.players[action.playerId].roleId # "detective" THEN <<>>
  ELSE << [targetId |-> action.targetId,
           isMafia |-> state.players[action.targetId].alignment = "mafia",
           investigatorId |-> action.playerId] >>

\* the for-loop over sortedActions with its switch on action.type
RECURSIVE ScanNightActions(_, _, _, _)
ScanNightActions(state, acts, killed, inv) ==
  IF acts = <<>> THEN [killedPlayerId |-> killed, investigationResults |-> inv]
  ELSE LET a == Head(acts) IN
       IF a.type = "KILL"
       THEN ScanNightActions(state, Tail(acts), processKillAction(state, a), inv)
       ELSE IF a.type = "PROTECT"
       THEN ScanNightActions(state, Tail(acts), processProtectAction(state, a, killed), inv)
       ELSE IF a.type = "INVESTIGATE"
       THEN ScanNightActions(state, Tail(acts), killed, inv \o processInvestigateAction(state, a))
       ELSE ScanNightActions(state, Tail(acts), killed, inv)

\* mutant: a night without a death adds no narrative line
resolveNightActions_silent(state) ==
  LET sortedActions == SortByPriority(state.nightActions)
      scan == ScanNightActions(state, sortedActions, None, <<>>)
      killedPlayerId == scan.killedPlayerId
      narrativeParts ==
        IF killedPlayerId # None
        THEN (IF HasPlayer(state, killedPlayerId)
              THEN <<EliminatedLine(state.players[killedPlayerId].name)>> ELSE <<>>)
        ELSE <<>>
      updatedPlayers ==
        IF killedPlayerId # None
        THEN [state.players EXCEPT ![killedPlayerId].status = "dead"]
        ELSE state.players
  IN  [killedPlayerId |-> killedPlayerId,
       investigationResults |-> scan.investigationResults,
       narrative |-> narrativeParts,
       updatedState |->
         [state EXCEPT !.players = updatedPlayers,
                       !.investigationResults = state.investigationResults \o scan.investigationResults,
                       !.publicNarrative = state.publicNarrative \o narrativeParts,
                       !.nightActions = <<>>]]

resolveNightActions(state) ==
  LET sortedActions == SortByPriority(state.nightActions)
      scan == ScanNightActions(state, sortedActions, None, <<>>)
      killedPlayerId == scan.killedPlayerId
      narrativeParts ==
        IF killedPlayerId # None
        THEN (IF HasPlayer(state, killedPlayerId)
              THEN <<EliminatedLine(state.players[killedPlayerId].name)>> ELSE <<>>)
        ELSE <<NoOneDiedLine>>
      updatedPlayers ==
        IF killedPlayerId # None
        THEN [state.players EXCEPT ![killedPlayerId].status = "dead"]
        ELSE state.players
  IN  [killedPlayerId |-> killedPlayerId,
       investigationResults |-> scan.investigationResults,
       narrative |-> narrativeParts,
       updatedState |->
         [state EXCEPT !.players = updatedPlayers,
                       !.investigationResults = state.investigationResults \o scan.investigationResults,
                       !.publicNarrative = state.publicNarrative \o narrativeParts,
                       !.nightActions = <<>>]]

\* ------------------------------------------------------------------------
\* Room state construction

DefaultSettings ==
  [nightDurationMs |-> NightDurationMs, dayDurationMs |-> 300000, voteDurationMs |-> 120000,
   revealRolesOnDeath |-> TRUE, anonymousVoting |-> FALSE, votingMode |-> "majority",
   minPlayers |-> MinPlayers, maxPlayers |-> MaxPlayers]

MakePlayer(name, roleId, alignment, status) ==
  [name |-> name, roleId |-> roleId, alignment |-> alignment,
   status |-> status, connected |-> TRUE]

NoTimer == [phase |-> "none", submittedAt |-> 0, endsAt |-> 0]

\* ------------------------------------------------------------------------
\* Engine harness: night resolution as a pure function of a drawn state.
\* The room has a fixed cast of which at most one player is already dead and
\* one investigation result from an earlier night.

NightCastIds == 1..4
NightCastRole(i) == <<"mafia", "mafia", "doctor", "detective">>[i]
NightCastName(i) == <<"Ann", "Bob", "Cid", "Dee">>[i]
NightTargets == NightCastIds \cup {5}          \* 5 names no player of the room
ActionTypes == {"KILL", "PROTECT", "INVESTIGATE"}

NightInput(dead, prior) ==
  [hostId |-> 1, phase |-> "night",
   timer |-> [phase |-> "night", submittedAt |-> 0, endsAt |-> 90000],
   settings |-> DefaultSettings,
   players |-> [i \in NightCastIds |->
                  MakePlayer(NightCastName(i), NightCastRole(i),
                             IF NightCastRole(i) = "mafia" THEN "mafia" ELSE "town",
                             IF i \in dead THEN "dead" ELSE "alive")],
   nightActions |-> <<>>, votes |-> <<>>,
   investigationResults |-> prior,
   publicNarrative |-> <<>>,
   victoryCondition |-> "none"]

PriorInvestigation == [targetId |-> 1, isMafia |-> TRUE, investigatorId |-> 4]

\* nothing emitted by a vote.cast handler yet
NoReply == [playerId |-> None, actionId |-> None, targetId |-> None, code |-> "none"]

\* server instances sharing the store
Instances == {1, 2}

\* the leader key does not exist
NoLease == [holder |-> None, ttl |-> FALSE]

\* a running instance with no renewal interval and no call in flight
IdleInstance == [up |-> TRUE, renewing |-> FALSE, pc |-> "idle"]

\* no instance has asked for leadership or committed
LeaderIdle ==
  /\ lease = NoLease
  /\ inst = [i \in Instances |-> IdleInstance]
  /\ written = {}

\* client connections, one handler in flight on each
Sockets == {1, 2}

\* no session registered, every followed socket connected
SessionIdle ==
  /\ session = <<>>
  /\ conn = [s \in Sockets |-> "open"]
  /\ evicted = {}
  /\ resumeOut = [socket |-> None, code |-> "none"]

\* room ids and room codes of the followed rooms
RoomIds == {1, 2}
Codes == {1, 2}

\* a key that does not exist
NoRoomKey == [state |-> "absent", code |-> None, ttl |-> 0]
NoCodeKey == [roomId |-> None, ttl |-> 0]

\* no room key and no code key is followed
KeysIdle ==
  /\ roomKey = [r \in RoomIds |-> NoRoomKey]
  /\ codeKey = [c \in Codes |-> NoCodeKey]

\* no action.ack emitted yet
NoAck == [socket |-> None, response |-> <<>>, cmd |-> 0]

NoResult == [killedPlayerId |-> None, investigationResults |-> <<>>,
             narrative |-> <<>>, updatedState |-> NightInput({}, <<>>)]

ServerIdle ==
  /\ store = NightInput({}, <<>>)
  /\ h = <<>>
  /\ sock = <<>>
  /\ dedup = <<>>
  /\ acked = {}
  /\ now = 0
  /\ nextId = 0
  /\ sent = 0
  /\ voteOut = NoReply
  /\ inbox = <<>>
  /\ ackOut = NoAck
  /\ LeaderIdle
  /\ SessionIdle
  /\ KeysIdle

InitNight ==
  /\ ServerIdle
  /\ \E dead \in {{}} \cup {{i} : i \in NightCastIds} :
       est = NightInput(dead, <<PriorInvestigation>>)
  /\ eres = NoResult
  /\ epc = "build"

\* nightActions[actionId] = nightAction with a fresh action id: the entry is
\* appended in insertion order, built as the action.submit handler builds it
NightInsert(p, type, target) ==
  /\ epc = "build"
  /\ Len(est.nightActions) < MaxNightActions
  /\ est' = [est EXCEPT !.nightActions =
               Append(@, [actionId |-> Len(est.nightActions) + 1,
                          playerId |-> p, type |-> type, targetId |-> target,
                          submittedAt |-> Len(est.nightActions),
                          priority |-> PriorityOf(type)])]
  /\ UNCHANGED <<eres, epc>>
  /\ UNCHANGED serverVars

NightResolve ==
  /\ epc = "build"
  /\ eres' = resolveNightActions(est)
  /\ epc' = "resolved"
  /\ UNCHANGED est
  /\ UNCHANGED serverVars

NextNight ==
  \/ \E p \in NightCastIds, type \in ActionTypes, target \in NightTargets :
       NightInsert(p, type, target)
  \/ NightResolve

SpecNight == InitNight /\ [][NextNight]_vars

\* ------------------------------------------------------------------------
\* Role registry (packages/engine/src/roles/registry.ts)

\* roleConfig.night.type, "" when the role has no night action
RoleNightType(roleId) ==
  IF roleId = "mafia" THEN "KILL"
  ELSE IF roleId = "detective" THEN "INVESTIGATE"
  ELSE IF roleId = "doctor" THEN "PROTECT"
  ELSE ""

RoleAllowSelf(roleId) == roleId = "doctor"
RoleTargetFilter(roleId) ==
  IF roleId = "mafia" THEN "nonMafia"
  ELSE IF roleId = "townsperson" THEN "none" ELSE "anyAlive"

Max2(a, b) == IF a >= b THEN a ELSE b

\* mutant: the mafia count is rounded up
getDefaultRoleDistribution_ceil(playerCount) ==
  LET mafiaCount == Max2(1, (playerCount + 2) \div 3)
  IN  [i \in 1..playerCount |->
         IF i = 1 THEN "detective"
         ELSE IF i = 2 THEN "doctor"
         ELSE IF i <= 2 + mafiaCount THEN "mafia"
         ELSE "townsperson"]

getDefaultRoleDistribution(playerCount) ==
  LET mafiaCount == Max2(1, playerCount \div 3)
  IN  [i \in 1..playerCount |->
         IF i = 1 THEN "detective"
         ELSE IF i = 2 THEN "doctor"
         ELSE IF i <= 2 + mafiaCount THEN "mafia"
         ELSE "townsperson"]

\* ------------------------------------------------------------------------
\* Policy gate (PolicyService)

\* the violation code, or "OK" for { valid: true }
PolicyValidateNightAction(state, action) ==
  IF state.phase # "night" THEN "WRONG_PHASE"
  ELSE IF ~HasPlayer(state, action.playerId) THEN "UNAUTHORIZED"
  ELSE IF state.players[action.playerId].status # "alive" THEN "DEAD_PLAYER"
  ELSE IF ~HasPlayer(state, action.targetId) THEN "INVALID_TARGET"
  ELSE IF state.players[action.targetId].status # "alive" THEN "INVALID_TARGET"
  ELSE LET roleId == state.players[action.playerId].roleId IN
       IF RoleNightType(roleId) = "" \/ RoleNightType(roleId) # action.type
       THEN "UNAUTHORIZED"
       ELSE IF ~RoleAllowSelf(roleId) /\ action.playerId = action.targetId
       THEN "INVALID_TARGET"
       ELSE IF /\ RoleTargetFilter(roleId) = "nonMafia"
               /\ state.players[action.targetId].alignment = "mafia"
       THEN "INVALID_TARGET"
       ELSE "OK"

\* ------------------------------------------------------------------------
\* Room store and command handlers (RoomService, setupSocketHandlers)

ActionIds == 1..MaxActionId
TargetIds == 1..MaxTargetId
MaxIds == MaxPlayers + 2               \* ids generateId() may hand out
JoinSessionIds == {1}                  \* sessionId values a joining client sends
PlayerName(id) == <<"Ann", "Bob", "Cid", "Dee", "Eve", "Fay", "Gus", "Hal", "Ian", "Jo">>[id]

\* the ids of a set in ascending order
RECURSIVE SortedIds(_)
SortedIds(S) ==
  IF S = {} THEN <<>>
  ELSE LET m == CHOOSE x \in S : \A y \in S : x <= y
       IN  <<m>> \o SortedIds(S \ {m})

\* { ...map, [key]: value } on a map kept in insertion order: an existing key
\* keeps its position, a new key goes last
Upsert(map, rec) ==
  IF \E i \in 1..Len(map) : map[i].actionId = rec.actionId
  THEN [i \in 1..Len(map) |-> IF map[i].actionId = rec.actionId THEN rec ELSE map[i]]
  ELSE Append(map, rec)

\* the state createRoom stores
InitialRoomState(hostId, hostName) ==
  [hostId |-> hostId, phase |-> "lobby", timer |-> NoTimer,
   settings |-> DefaultSettings,
   players |-> (hostId :> MakePlayer(hostName, "townsperson", "town", "alive")),
   nightActions |-> <<>>, votes |-> <<>>,
   investigationResults |-> <<>>, publicNarrative |-> <<>>,
   victoryCondition |-> "none"]

\* no snapshot delivered to any socket
NoInbox == [s \in Sockets |-> {}]

\* no handler in flight on the socket
IdleHandler ==
  [op |-> "idle", pc |-> "idle", playerId |-> None, actionId |-> None,
   type |-> "", targetId |-> None, snap |-> InitialRoomState(1, PlayerName(1))]

Busy(op, pc, playerId, actionId, type, targetId, snap) ==
  [op |-> op, pc |-> pc, playerId |-> playerId, actionId |-> actionId,
   type |-> type, targetId |-> targetId, snap |-> snap]

EngineIdle ==
  /\ est = NightInput({}, <<>>)
  /\ eres = NoResult
  /\ epc = "off"

\* the state after room.create on socket 1: the room exists with its host
Init ==
  /\ store = InitialRoomState(1, PlayerName(1))
  /\ h = [s \in Sockets |-> IdleHandler]
  /\ sock = [s \in Sockets |-> IF s = 1 THEN 1 ELSE None]
  /\ dedup = <<>>
  /\ acked = {}
  /\ now = 0
  /\ nextId = 2
  /\ sent = 0
  /\ voteOut = NoReply
  /\ inbox = NoInbox
  /\ ackOut = NoAck
  /\ LeaderIdle
  /\ SessionIdle
  /\ KeysIdle
  /\ EngineIdle

\* mutant: only the presence of hostId is checked
UpdateAllowed_presentOnly(state) == state.hostId # None

\* updateRoomState's invariant checks against the stored pre-image
UpdateAllowed(state) == state.hostId # None /\ state.hostId = store.hostId

\* ---- room.join ----

\* addPlayerToRoom up to its capacity and phase checks
JoinCheck(s, sid) ==
  /\ h[s].op = "idle"
  /\ IF Cardinality(DOMAIN store.players) >= store.settings.maxPlayers
     THEN h' = [h EXCEPT ![s] = IdleHandler] /\ UNCHANGED nextId
     ELSE IF store.phase # "lobby"
     THEN h' = [h EXCEPT ![s] = IdleHandler] /\ UNCHANGED nextId
     ELSE IF sid # None
     THEN /\ h' = [h EXCEPT ![s] = Busy("join", "read", sid, None, "", None, store)]
          /\ UNCHANGED nextId
     ELSE /\ nextId <= MaxIds
          /\ h' = [h EXCEPT ![s] = Busy("join", "read", nextId, None, "", None, store)]
          /\ nextId' = nextId + 1
  /\ UNCHANGED <<store, sock, dedup, acked, now, sent, voteOut, inbox, ackOut, leaderVars, sessionVars, keyVars, engineVars>>

\* updateRoomStateSafe: prev = getRoomState(), next = mutator(prev)
JoinRead(s) ==
  /\ h[s].op = "join" /\ h[s].pc = "read"
  /\ LET newPlayer == MakePlayer(PlayerName(h[s].playerId), "townsperson", "town", "alive")
         next == [store EXCEPT !.players =
                    [id \in DOMAIN store.players \cup {h[s].playerId} |->
                       IF id = h[s].playerId THEN newPlayer ELSE store.players[id]]]
     IN  h' = [h EXCEPT ![s].pc = "write", ![s].snap = next]
  /\ UNCHANGED <<store, sock, dedup, acked, now, nextId, sent, voteOut, inbox, ackOut, leaderVars, sessionVars, keyVars, engineVars>>

\* updateRoomState(next), then the handler binds the socket to the player
JoinWrite(s) ==
  /\ h[s].op = "join" /\ h[s].pc = "write"
  /\ IF UpdateAllowed(h[s].snap)
     THEN /\ store' = h[s].snap
          /\ sock' = [sock EXCEPT ![s] = h[s].playerId]
          /\ h' = [h EXCEPT ![s] = IdleHandler]
     ELSE /\ h' = [h EXCEPT ![s] = IdleHandler]
          /\ UNCHANGED <<store, sock>>
  /\ UNCHANGED <<dedup, acked, now, nextId, sent, voteOut, inbox, ackOut, leaderVars, sessionVars, keyVars, engineVars>>

\* ---- host.action start ----

\* shuffledPlayerIds: the explored outcomes of the random sort are rotations
Shuffled(ids, k) ==
  LET n == Len(ids) IN [i \in 1..n |-> ids[((i - 1 + k) % n) + 1]]

\* the state startGame builds once its checks have passed
StartedWith(state, shuffledPlayerIds, t) ==
  LET playerCount == Len(shuffledPlayerIds)
      roleDistribution == getDefaultRoleDistribution(playerCount)
      indexOf(id) == CHOOSE i \in 1..playerCount : shuffledPlayerIds[i] = id
      updatedPlayers ==
        [id \in DOMAIN state.players |->
           [state.players[id] EXCEPT
              !.roleId = roleDistribution[indexOf(id)],
              !.alignment = IF roleDistribution[indexOf(id)] = "mafia"
                            THEN "mafia" ELSE "town"]]
  IN  [state EXCEPT
         !.phase = "night",
         !.timer = [phase |-> "night", submittedAt |-> t,
                    endsAt |-> t + state.settings.nightDurationMs],
         !.players = updatedPlayers,
         !.publicNarrative =
            <<[who |-> "", text |-> "The game has begun. It is now night time..."]>>]

\* startGame with the k-th explored outcome of the shuffle
StartedState(state, k, t) ==
  StartedWith(state, Shuffled(SortedIds(DOMAIN state.players), k), t)

StartChecksPass(state, caller) ==
  /\ state.hostId = caller
  /\ Cardinality(DOMAIN state.players) >= state.settings.minPlayers

\* host.action 'start' up to the end of startGame's checks and role assignment
StartLoad(s, k) ==
  /\ h[s].op = "idle"
  /\ IF sock[s] = None
     THEN h' = [h EXCEPT ![s] = IdleHandler]
     ELSE IF ~StartChecksPass(store, sock[s])
     THEN h' = [h EXCEPT ![s] = IdleHandler]
     ELSE h' = [h EXCEPT ![s] =
                  Busy("start", "commit", sock[s], None, "", None,
                       StartedState(store, k, now))]
  /\ UNCHANGED <<store, sock, dedup, acked, now, nextId, sent, voteOut, inbox, ackOut, leaderVars, sessionVars, keyVars, engineVars>>

\* ---- action.submit ----

DedupKey(actionId, playerId) == <<actionId, playerId>>

DedupPut(key, rec) ==
  [k \in DOMAIN dedup \cup {key} |-> IF k = key THEN rec ELSE dedup[k]]

\* mutant: every duplicate is dropped silently, also a completed one
SubmitDedup_silent(s, actionId, type, targetId) ==
  /\ h[s].op = "idle"
  /\ sent < MaxSubmits
  /\ sent' = sent + 1
  /\ IF sock[s] = None
     THEN h' = [h EXCEPT ![s] = IdleHandler] /\ UNCHANGED <<dedup, ackOut>>
     ELSE LET key == DedupKey(actionId, sock[s]) IN
          IF key \in DOMAIN dedup
          THEN /\ h' = [h EXCEPT ![s] = IdleHandler]
               /\ UNCHANGED <<dedup, ackOut>>
          ELSE /\ dedup' = DedupPut(key, [status |-> "processing", response |-> <<>>])
               /\ h' = [h EXCEPT ![s] =
                          Busy("submit", "load", sock[s], actionId, type, targetId, store)]
               /\ UNCHANGED ackOut
  /\ UNCHANGED <<store, sock, acked, now, nextId, voteOut, inbox, leaderVars, sessionVars, keyVars, engineVars>>

\* checkAndMarkAction, and the handler's return on a duplicate: the cached
\* response is emitted again when the record is completed, otherwise nothing
SubmitDedup(s, actionId, type, targetId) ==
  /\ h[s].op = "idle"
  /\ sent < MaxSubmits
  /\ sent' = sent + 1
  /\ IF sock[s] = None
     THEN h' = [h EXCEPT ![s] = IdleHandler] /\ UNCHANGED <<dedup, ackOut>>
     ELSE LET key == DedupKey(actionId, sock[s]) IN
          IF key \in DOMAIN dedup
          THEN /\ h' = [h EXCEPT ![s] = IdleHandler]
               /\ ackOut' = IF dedup[key].status = "completed" /\ dedup[key].response # <<>>
                            THEN [socket |-> s, response |-> dedup[key].response,
                                  cmd |-> sent']
                            ELSE ackOut
               /\ UNCHANGED dedup
          ELSE /\ dedup' = DedupPut(key, [status |-> "processing", response |-> <<>>])
               /\ h' = [h EXCEPT ![s] =
                          Busy("submit", "load", sock[s], actionId, type, targetId, store)]
               /\ UNCHANGED ackOut
  /\ UNCHANGED <<store, sock, acked, now, nextId, voteOut, inbox, leaderVars, sessionVars, keyVars, engineVars>>

\* getRoomState, the night action object, the policy gate and updatedState
SubmitLoad(s) ==
  /\ h[s].op = "submit" /\ h[s].pc = "load"
  /\ LET nightAction == [actionId |-> h[s].actionId, playerId |-> h[s].playerId,
                         type |-> h[s].type, targetId |-> h[s].targetId,
                         submittedAt |-> now, priority |-> PriorityOf(h[s].type)]
         verdict == PolicyValidateNightAction(store, nightAction)
     IN  IF verdict # "OK"
         THEN h' = [h EXCEPT ![s].pc = "fail"]
         ELSE h' = [h EXCEPT ![s].pc = "commit",
                             ![s].snap = [store EXCEPT !.nightActions = Upsert(@, nightAction)]]
  /\ UNCHANGED <<store, sock, dedup, acked, now, nextId, sent, voteOut, inbox, ackOut, leaderVars, sessionVars, keyVars, engineVars>>

\* markActionFailed, then sendError
HandlerFail(s) ==
  /\ h[s].pc = "fail"
  /\ dedup' = DedupPut(DedupKey(h[s].actionId, h[s].playerId),
                       [status |-> "failed", response |-> <<>>])
  /\ h' = [h EXCEPT ![s] = IdleHandler]
  /\ UNCHANGED <<store, sock, acked, now, nextId, sent, voteOut, inbox, ackOut, leaderVars, sessionVars, keyVars, engineVars>>

\* updateRoomState(updatedState) of startGame and of action.submit
\* (the snapshots a start handler emits afterwards do not touch the store;
\* their delivery is followed by StartCommit and BroadcastRoomUpdate)
HandlerCommit(s) ==
  /\ h[s].pc = "commit"
  /\ IF UpdateAllowed(h[s].snap)
     THEN /\ store' = h[s].snap
          /\ h' = [h EXCEPT ![s] =
                     IF h[s].op = "start" THEN IdleHandler
                     ELSE [h[s] EXCEPT !.pc = "complete"]]
     ELSE /\ h' = [h EXCEPT ![s] = IdleHandler]
          /\ UNCHANGED store
  /\ UNCHANGED <<sock, dedup, acked, now, nextId, sent, voteOut, inbox, ackOut, leaderVars, sessionVars, keyVars, engineVars>>

\* the ackResponse object of the handler
AckResponse(actionId, type, targetId) == <<actionId, type, targetId>>

\* markActionCompleted, then socket.emit('action.ack')
SubmitComplete(s) ==
  /\ h[s].op = "submit" /\ h[s].pc = "complete"
  /\ LET ackResponse == AckResponse(h[s].actionId, h[s].type, h[s].targetId) IN
       /\ dedup' = DedupPut(DedupKey(h[s].actionId, h[s].playerId),
                            [status |-> "completed", response |-> ackResponse])
       /\ ackOut' = [socket |-> s, response |-> ackResponse, cmd |-> sent]
  /\ acked' = acked \cup {[playerId |-> h[s].playerId, actionId |-> h[s].actionId]}
  /\ h' = [h EXCEPT ![s] = IdleHandler]
  /\ UNCHANGED <<store, sock, now, nextId, sent, voteOut, inbox, leaderVars, sessionVars, keyVars, engineVars>>

\* the wall clock advances
Tick ==
  /\ now < MaxClock
  /\ now' = now + 1
  /\ UNCHANGED <<store, h, sock, dedup, acked, nextId, sent, voteOut, inbox, ackOut, leaderVars, sessionVars, keyVars, engineVars>>

\* room lifecycle: joins and game start from the created room.  A rejected
\* command (sendError) leaves every variable unchanged.
Next ==
  \/ \E s \in Sockets, sid \in JoinSessionIds \cup {None} : JoinCheck(s, sid)
  \/ \E s \in Sockets : JoinRead(s)
  \/ \E s \in Sockets : JoinWrite(s)
  \/ \E s \in Sockets, k \in 0..(ShuffleChoices - 1) : StartLoad(s, k)
  \/ \E s \in Sockets : HandlerCommit(s)
  \/ Tick

Spec == Init /\ [][Next]_vars

\* a lobby of n players as n - 1 joins leave it
LobbyOf(n) ==
  [InitialRoomState(1, PlayerName(1)) EXCEPT !.players =
     [id \in 1..n |-> MakePlayer(PlayerName(id), "townsperson", "town", "alive")]]

\* night action submission, from a room whose game the host has started
\* (a state Spec reaches) with each socket bound to a player of the room
InitSubmit ==
  /\ \E n \in MinPlayers..MaxPlayers, k \in 0..(ShuffleChoices - 1) :
       /\ store = StartedState(LobbyOf(n), k, 0)
       /\ nextId = n + 1
       /\ \E off \in 0..1 : sock = [s \in Sockets |-> s + off]
  /\ h = [s \in Sockets |-> IdleHandler]
  /\ dedup = <<>>
  /\ acked = {}
  /\ now = 0
  /\ sent = 0
  /\ voteOut = NoReply
  /\ inbox = NoInbox
  /\ ackOut = NoAck
  /\ LeaderIdle
  /\ SessionIdle
  /\ KeysIdle
  /\ EngineIdle

NextSubmit ==
  \/ \E s \in Sockets, a \in ActionIds, type \in ActionTypes, t \in TargetIds :
       SubmitDedup(s, a, type, t)
  \/ \E s \in Sockets : SubmitLoad(s)
  \/ \E s \in Sockets : HandlerFail(s)
  \/ \E s \in Sockets : HandlerCommit(s)
  \/ \E s \in Sockets : SubmitComplete(s)

SpecSubmit == InitSubmit /\ [][NextSubmit]_vars

\* ------------------------------------------------------------------------
\* vote.cast

Phases == {"lobby", "night", "day_announcement", "day_discussion", "day_voting", "ended"}

\* PolicyService.validateVote: the violation code, or "OK"
PolicyValidateVote(state, vote) ==
  IF state.phase # "vote" THEN "WRONG_PHASE"
  ELSE IF ~HasPlayer(state, vote.playerId) THEN "UNAUTHORIZED"
  ELSE IF state.players[vote.playerId].status # "alive" THEN "DEAD_PLAYER"
  ELSE IF vote.targetId = None THEN "OK"
  ELSE IF ~HasPlayer(state, vote.targetId) THEN "INVALID_TARGET"
  ELSE IF state.players[vote.targetId].status # "alive" THEN "INVALID_TARGET"
  ELSE "OK"

VoteTargets == {None} \cup TargetIds \cup {MaxIds}

\* the vote.cast handler, run to its end: dedup check, load, policy gate,
\* commit of votes[actionId] = vote, completion mark and vote.update
VoteCast(s, actionId, targetId) ==
  /\ h[s].op = "idle"
  /\ sent < MaxSubmits
  /\ sent' = sent + 1
  /\ LET reply(code) == [playerId |-> sock[s], actionId |-> actionId,
                         targetId |-> targetId, code |-> code]
         key == DedupKey(actionId, sock[s])
         vote == [actionId |-> actionId, playerId |-> sock[s],
                  targetId |-> targetId, submittedAt |-> now]
         verdict == PolicyValidateVote(store, vote)
         updatedState == [store EXCEPT !.votes = Upsert(@, vote)]
     IN  IF sock[s] = None
         THEN /\ voteOut' = reply("UNAUTHORIZED")
              /\ UNCHANGED <<store, dedup>>
         ELSE IF key \in DOMAIN dedup
         THEN /\ voteOut' = reply(IF dedup[key].status = "completed"
                                  THEN "REPLAY" ELSE "none")
              /\ UNCHANGED <<store, dedup>>
         ELSE IF verdict # "OK"
         THEN /\ dedup' = DedupPut(key, [status |-> "failed", response |-> <<>>])
              /\ voteOut' = reply(verdict)
              /\ UNCHANGED store
         ELSE IF ~UpdateAllowed(updatedState)
         THEN /\ dedup' = DedupPut(key, [status |-> "processing", response |-> <<>>])
              /\ voteOut' = reply("UNAUTHORIZED")
              /\ UNCHANGED store
         ELSE /\ store' = updatedState
              /\ dedup' = DedupPut(key, [status |-> "completed",
                                         response |-> <<actionId, "vote", targetId>>])
              /\ voteOut' = reply("OK")
  /\ UNCHANGED <<h, sock, acked, now, nextId, inbox, ackOut, leaderVars, sessionVars, keyVars, engineVars>>

\* voting, from a started room in any phase of the game with at most one
\* player already dead and each socket bound to a player of the room
InitVote ==
  /\ \E n \in MinPlayers..MaxPlayers, k \in 0..(ShuffleChoices - 1),
        phase \in Phases \ {"lobby"}, dead \in {None} \cup (1..MinPlayers) :
       /\ store = [StartedState(LobbyOf(n), k, 0) EXCEPT
                     !.phase = phase,
                     !.timer = IF phase = "ended" THEN NoTimer
                               ELSE [@ EXCEPT !.phase = phase],
                     !.players = [id \in DOMAIN @ |->
                                    IF id = dead THEN [@[id] EXCEPT !.status = "dead"]
                                    ELSE @[id]]]
       /\ nextId = n + 1
       /\ \E off \in 0..1 : sock = [s \in Sockets |-> s + off]
  /\ h = [s \in Sockets |-> IdleHandler]
  /\ dedup = <<>>
  /\ acked = {}
  /\ now = 0
  /\ sent = 0
  /\ voteOut = NoReply
  /\ inbox = NoInbox
  /\ ackOut = NoAck
  /\ LeaderIdle
  /\ SessionIdle
  /\ KeysIdle
  /\ EngineIdle

NextVote ==
  \E s \in Sockets, a \in ActionIds, t \in VoteTargets : VoteCast(s, a, t)

SpecVote == InitVote /\ [][NextVote]_vars

\* ------------------------------------------------------------------------
\* Voting resolution (packages/engine/src/reducers/victory.ts)

NoLynchLine == [who |-> "", text |-> "No one was lynched. The town could not reach a decision."]
LynchedLine(name, voteCount, roleReveal) ==
  [who |-> name, text |-> "was lynched with", votes |-> voteCount, role |-> roleReveal]

\* Object.values(state.players).filter(alive).map(id): players enumerate in
\* the order they were added, which is the order of their ids
AlivePlayerIds(state) ==
  SortedIds({id \in DOMAIN state.players : state.players[id].status = "alive"})

\* tallies start at 0 for every alive player; a vote counts when its target
\* is non-null and has a tally
calculateVoteTallies(votes, alivePlayerIds) ==
  [id \in Range(alivePlayerIds) |->
     Cardinality({i \in 1..Len(votes) : votes[i].targetId # None /\ votes[i].targetId = id})]

\* the loop of resolveMajorityVote over Object.entries(tallies)
RECURSIVE MajorityScan(_, _, _, _, _)
MajorityScan(tallies, ids, highestVotes, winnersCount, winner) ==
  IF ids = <<>> THEN [highestVotes |-> highestVotes, winnersCount |-> winnersCount,
                      winner |-> winner]
  ELSE LET voteCount == tallies[Head(ids)] IN
       IF voteCount > highestVotes
       THEN MajorityScan(tallies, Tail(ids), voteCount, 1, Head(ids))
       ELSE IF voteCount = highestVotes /\ voteCount > 0
       THEN MajorityScan(tallies, Tail(ids), highestVotes, winnersCount + 1, winner)
       ELSE MajorityScan(tallies, Tail(ids), highestVotes, winnersCount, winner)

resolveMajorityVote(tallies, ids, aliveCount) ==
  LET majorityThreshold == (aliveCount \div 2) + 1
      r == MajorityScan(tallies, ids, 0, 0, None)
  IN  IF r.highestVotes >= majorityThreshold /\ r.winnersCount = 1 THEN r.winner ELSE None

\* the loop of resolvePluralityVote over Object.entries(tallies)
RECURSIVE PluralityScan(_, _, _, _)
PluralityScan(tallies, ids, highestVotes, winner) ==
  IF ids = <<>> THEN [highestVotes |-> highestVotes, winner |-> winner]
  ELSE IF tallies[Head(ids)] > highestVotes
       THEN PluralityScan(tallies, Tail(ids), tallies[Head(ids)], Head(ids))
       ELSE PluralityScan(tallies, Tail(ids), highestVotes, winner)

\* mutant: a later player with an equal count replaces the winner
resolvePluralityVote_lastWins(tallies, ids) ==
  LET top == {id \in Range(ids) : \A o \in Range(ids) : tallies[o] <= tallies[id]}
      last == CHOOSE id \in top : \A o \in top : o <= id
  IN  IF ids # <<>> /\ tallies[last] > 0 THEN last ELSE None

resolvePluralityVote(tallies, ids) ==
  LET r == PluralityScan(tallies, ids, 0, None)
  IN  IF r.highestVotes > 0 THEN r.winner ELSE None

generateVoteNarrative(lynchTargetId, tallies, state) ==
  IF lynchTargetId = None THEN NoLynchLine
  ELSE LynchedLine(state.players[lynchTargetId].name, tallies[lynchTargetId],
                   IF state.settings.revealRolesOnDeath
                   THEN state.players[lynchTargetId].roleId ELSE "")

resolveVoting(state) ==
  LET alivePlayerIds == AlivePlayerIds(state)
      tallies == calculateVoteTallies(state.votes, alivePlayerIds)
      lynchTargetId == IF state.settings.votingMode = "majority"
                       THEN resolveMajorityVote(tallies, alivePlayerIds, Len(alivePlayerIds))
                       ELSE resolvePluralityVote(tallies, alivePlayerIds)
      narrative == generateVoteNarrative(lynchTargetId, tallies, state)
      updatedPlayers == [id \in DOMAIN state.players |->
                           IF id = lynchTargetId
                           THEN [state.players[id] EXCEPT !.status = "dead"]
                           ELSE state.players[id]]
  IN  [lynchTargetId |-> lynchTargetId, tallies |-> tallies, narrative |-> narrative,
       updatedState |-> [state EXCEPT !.players = updatedPlayers,
                                      !.publicNarrative = Append(@, narrative),
                                      !.votes = <<>>]]

\* validateVote of the engine: voter alive, target null or an alive player
EngineValidateVote(state, vote) ==
  /\ HasPlayer(state, vote.playerId)
  /\ state.players[vote.playerId].status = "alive"
  /\ \/ vote.targetId = None
     \/ /\ HasPlayer(state, vote.targetId)
        /\ state.players[vote.targetId].status = "alive"

\* Engine harness: voting resolution as a pure function of a drawn state.
\* Three players, the third possibly dead already; votes are added as the
\* vote.cast handler adds them, each under a fresh action id.

TallyCastIds == 1..3
TallyVoters == {1, 2}
TallyTargets == {None} \cup TallyCastIds
VotingModes == {"majority", "plurality"}

TallyInput(dead, mode) ==
  [hostId |-> 1, phase |-> "day_voting",
   timer |-> [phase |-> "day_voting", submittedAt |-> 0, endsAt |-> 120000],
   settings |-> [DefaultSettings EXCEPT !.votingMode = mode],
   players |-> [i \in TallyCastIds |->
                  MakePlayer(NightCastName(i), NightCastRole(i),
                             IF NightCastRole(i) = "mafia" THEN "mafia" ELSE "town",
                             IF i = dead THEN "dead" ELSE "alive")],
   nightActions |-> <<>>, votes |-> <<>>,
   investigationResults |-> <<>>,
   publicNarrative |-> <<>>,
   victoryCondition |-> "none"]

NoVotingResult ==
  [lynchTargetId |-> None, tallies |-> <<>>, narrative |-> NoLynchLine,
   updatedState |-> TallyInput(None, "majority")]

InitTally ==
  /\ ServerIdle
  /\ \E dead \in {None, 3}, mode \in VotingModes : est = TallyInput(dead, mode)
  /\ eres = NoVotingResult
  /\ epc = "votes"

\* votes[actionId] = vote with a fresh action id, for a vote validateVote admits
TallyInsert(p, target) ==
  /\ epc = "votes"
  /\ Len(est.votes) < MaxVotes
  /\ LET vote == [actionId |-> Len(est.votes) + 1, playerId |-> p,
                  targetId |-> target, submittedAt |-> Len(est.votes)]
     IN  /\ EngineValidateVote(est, vote)
         /\ est' = [est EXCEPT !.votes = Append(@, vote)]
  /\ UNCHANGED <<eres, epc>>
  /\ UNCHANGED serverVars

TallyResolve ==
  /\ epc = "votes"
  /\ eres' = resolveVoting(est)
  /\ epc' = "tallied"
  /\ UNCHANGED est
  /\ UNCHANGED serverVars

NextTally ==
  \/ \E p \in TallyVoters, target \in TallyTargets : TallyInsert(p, target)
  \/ TallyResolve

SpecTally == InitTally /\ [][NextTally]_vars

\* ------------------------------------------------------------------------
\* Victory check and phase advance (victory.ts, phase management)

CountAlive(state, alignment) ==
  Cardinality({id \in DOMAIN state.players :
                 /\ state.players[id].status = "alive"
                 /\ state.players[id].alignment = alignment})

\* mutant: the town test comes first
checkVictoryCondition_townFirst(state) ==
  IF CountAlive(state, "mafia") = 0 THEN "town-victory"
  ELSE IF CountAlive(state, "mafia") >= CountAlive(state, "town") + CountAlive(state, "neutral")
  THEN "mafia-victory"
  ELSE "none"

checkVictoryCondition(state) ==
  LET aliveMafia == CountAlive(state, "mafia")
      aliveTown == CountAlive(state, "town")
      aliveNeutral == CountAlive(state, "neutral")
  IN  IF aliveMafia >= aliveTown + aliveNeutral THEN "mafia-victory"
      ELSE IF aliveMafia = 0 THEN "town-victory"
      ELSE "none"

\* mutant: only a mafia victory ends the game
shouldGameEnd_mafiaOnly(condition) == condition = "mafia-victory"

shouldGameEnd(condition) == condition # "none"

\* mutant: the timer ends after the duration counted from zero, not from now
createPhaseTimer_noStart(phase, durationMs, t) ==
  [phase |-> phase, submittedAt |-> t, endsAt |-> durationMs]

createPhaseTimer(phase, durationMs, t) ==
  [phase |-> phase, submittedAt |-> t, endsAt |-> t + durationMs]

AnnouncementMs == 30000

\* mutant: the game-over branch leaves the running timer in place
advancePhase_keepTimer(state, t) ==
  LET victoryCondition == checkVictoryCondition(state)
      to(nextPhase, durationMs) ==
        [state EXCEPT !.phase = nextPhase,
                      !.timer = createPhaseTimer(nextPhase, durationMs, t),
                      !.victoryCondition = victoryCondition]
  IN  IF shouldGameEnd(victoryCondition)
      THEN [state EXCEPT !.phase = "ended", !.victoryCondition = victoryCondition]
      ELSE IF state.phase = "lobby" THEN to("night", state.settings.nightDurationMs)
      ELSE IF state.phase = "night" THEN to("day_announcement", AnnouncementMs)
      ELSE IF state.phase = "day_announcement"
      THEN to("day_discussion", state.settings.dayDurationMs)
      ELSE IF state.phase = "day_discussion"
      THEN to("day_voting", state.settings.voteDurationMs)
      ELSE IF state.phase = "day_voting"
      THEN IF shouldGameEnd(checkVictoryCondition(state))
           THEN [state EXCEPT !.phase = "ended", !.timer = NoTimer,
                              !.victoryCondition = victoryCondition]
           ELSE to("night", state.settings.nightDurationMs)
      ELSE state

\* advancePhase at time t (lastSnapshot is not part of the modelled state)
advancePhase(state, t) ==
  LET victoryCondition == checkVictoryCondition(state)
      to(nextPhase, durationMs) ==
        [state EXCEPT !.phase = nextPhase,
                      !.timer = createPhaseTimer(nextPhase, durationMs, t),
                      !.victoryCondition = victoryCondition]
  IN  IF shouldGameEnd(victoryCondition)
      THEN [state EXCEPT !.phase = "ended", !.timer = NoTimer,
                         !.victoryCondition = victoryCondition]
      ELSE IF state.phase = "lobby" THEN to("night", state.settings.nightDurationMs)
      ELSE IF state.phase = "night" THEN to("day_announcement", AnnouncementMs)
      ELSE IF state.phase = "day_announcement"
      THEN to("day_discussion", state.settings.dayDurationMs)
      ELSE IF state.phase = "day_discussion"
      THEN to("day_voting", state.settings.voteDurationMs)
      ELSE IF state.phase = "day_voting"
      THEN IF shouldGameEnd(checkVictoryCondition(state))
           THEN [state EXCEPT !.phase = "ended", !.timer = NoTimer,
                              !.victoryCondition = victoryCondition]
           ELSE to("night", state.settings.nightDurationMs)
      ELSE state

\* Engine harness: resolution and phase advance from a drawn room state.
\* Four players of any alignment and status; in night at most one KILL has
\* been submitted, in day_voting either nobody has voted or every alive
\* player has voted for the same alive player.

PhaseCastIds == 1..4
Alignments == {"mafia", "town", "neutral"}
Statuses == {"alive", "dead"}

PhaseTimerOf(phase, settings) ==
  IF phase \in {"lobby", "ended"} THEN NoTimer
  ELSE createPhaseTimer(phase,
         IF phase = "night" THEN settings.nightDurationMs
         ELSE IF phase = "day_announcement" THEN AnnouncementMs
         ELSE IF phase = "day_discussion" THEN settings.dayDurationMs
         ELSE settings.voteDurationMs, 0)

PhaseInput(align, status, phase, nightActions, votes) ==
  LET players == [i \in PhaseCastIds |->
                    MakePlayer(NightCastName(i),
                               IF align[i] = "mafia" THEN "mafia" ELSE "townsperson",
                               align[i], status[i])]
      base == [hostId |-> 1, phase |-> phase,
               timer |-> PhaseTimerOf(phase, DefaultSettings),
               settings |-> DefaultSettings, players |-> players,
               nightActions |-> nightActions, votes |-> votes,
               investigationResults |-> <<>>, publicNarrative |-> <<>>,
               victoryCondition |-> "none"]
  IN  IF phase = "ended"
      THEN [base EXCEPT !.victoryCondition = checkVictoryCondition(base)]
      ELSE base

\* every alive player votes for t
UnanimousVotes(status, t) ==
  LET voters == SortedIds({i \in PhaseCastIds : status[i] = "alive"})
  IN  [k \in 1..Len(voters) |->
         [actionId |-> k, playerId |-> voters[k], targetId |-> t, submittedAt |-> 0]]

InitPhase ==
  /\ ServerIdle
  /\ \E align \in [PhaseCastIds -> Alignments], status \in [PhaseCastIds -> Statuses],
        phase \in Phases :
       /\ phase = "lobby" =>
            \A i \in PhaseCastIds : align[i] = "town" /\ status[i] = "alive"
       /\ \E na \in {<<>>} \cup
                    {<<[actionId |-> 1, playerId |-> p, type |-> "KILL", targetId |-> t,
                        submittedAt |-> 0, priority |-> PriorityOf("KILL")]>> :
                       p \in {q \in PhaseCastIds : phase = "night"}, t \in PhaseCastIds},
             vs \in {<<>>} \cup
                    {UnanimousVotes(status, t) :
                       t \in {q \in PhaseCastIds : phase = "day_voting" /\ status[q] = "alive"}} :
            est = PhaseInput(align, status, phase, na, vs)
       /\ phase = "ended" => est.victoryCondition # "none"
  /\ eres = NoResult
  /\ epc = "phase"

\* the resolution of the current phase, applied to the state
PhaseResolve ==
  /\ epc = "phase"
  /\ est.phase \in {"night", "day_voting"}
  /\ Len(est.publicNarrative) < MaxResolutions
  /\ eres' = IF est.phase = "night" THEN resolveNightActions(est) ELSE resolveVoting(est)
  /\ est' = eres'.updatedState
  /\ epc' = "resolved"
  /\ UNCHANGED serverVars

\* advancePhase, after the resolution in the phases that have one
PhaseAdvance ==
  /\ epc = "resolved" \/ est.phase \notin {"night", "day_voting"}
  /\ est' = advancePhase(est, now)
  /\ epc' = "phase"
  /\ UNCHANGED eres
  /\ UNCHANGED serverVars

NextPhase ==
  \/ PhaseResolve
  \/ PhaseAdvance

SpecPhase == InitPhase /\ [][NextPhase]_vars

\* the same harness while the wall clock runs (Date.now() in createPhaseTimer)
NextProgress ==
  \/ PhaseResolve
  \/ PhaseAdvance
  \/ Tick

SpecProgress == InitPhase /\ [][NextProgress]_vars

\* ------------------------------------------------------------------------
\* Phase completion (phase management) and the passing of the phase timer

isPhaseExpired(state, t) ==
  IF state.timer = NoTimer THEN FALSE ELSE t >= state.timer.endsAt

\* mutant: the doctor's action is required as well
arePhaseActionsComplete_doctorRequired(state) ==
  LET alive == {id \in DOMAIN state.players : state.players[id].status = "alive"}
      submittedActionPlayerIds == {state.nightActions[i].playerId :
                                     i \in 1..Len(state.nightActions)}
      votedPlayerIds == {state.votes[i].playerId : i \in 1..Len(state.votes)}
  IN  IF state.phase = "night"
      THEN \A id \in alive :
             state.players[id].roleId \in {"mafia", "detective", "doctor"}
               => id \in submittedActionPlayerIds
      ELSE IF state.phase = "day_voting" THEN \A id \in alive : id \in votedPlayerIds
      ELSE state.phase = "ended"

arePhaseActionsComplete(state) ==
  LET alive == {id \in DOMAIN state.players : state.players[id].status = "alive"}
      submittedActionPlayerIds == {state.nightActions[i].playerId :
                                     i \in 1..Len(state.nightActions)}
      votedPlayerIds == {state.votes[i].playerId : i \in 1..Len(state.votes)}
  IN  IF state.phase = "night"
      THEN \A id \in alive :
             state.players[id].roleId \in {"mafia", "detective"}
               => id \in submittedActionPlayerIds
      ELSE IF state.phase = "day_voting" THEN \A id \in alive : id \in votedPlayerIds
      ELSE state.phase = "ended"

shouldAdvancePhase(state, t) == isPhaseExpired(state, t) \/ arePhaseActionsComplete(state)

\* time passes until the end of the running phase timer
TimerExpires ==
  /\ store.timer # NoTimer
  /\ now < store.timer.endsAt
  /\ now' = store.timer.endsAt
  /\ UNCHANGED <<store, h, sock, dedup, acked, nextId, sent, voteOut, inbox, ackOut, leaderVars, sessionVars, keyVars, engineVars>>

\* a started room in which players submit night actions while the night
\* timer runs out; every handler in flight eventually takes its next step
NextStall ==
  \/ NextSubmit
  \/ TimerExpires

SpecStall == InitSubmit /\ [][NextStall]_vars /\ WF_vars(NextStall)

\* ------------------------------------------------------------------------
\* updateRoomState called with a state of any hostId

HostIdChoices == {None, 1, 2}

\* a caller builds a state from the stored one and calls updateRoomState
UpdateCall(s, hostId) ==
  /\ h[s].op = "idle"
  /\ h' = [h EXCEPT ![s] = Busy("update", "commit", sock[s], None, "", None,
                                 [store EXCEPT !.hostId = hostId])]
  /\ UNCHANGED <<store, sock, dedup, acked, now, nextId, sent, voteOut, inbox, ackOut, leaderVars, sessionVars, keyVars, engineVars>>

\* updateRoomState: the invariant checks throw, otherwise the state is stored
UpdateCommit(s) ==
  /\ h[s].op = "update" /\ h[s].pc = "commit"
  /\ IF UpdateAllowed(h[s].snap)
     THEN /\ store' = h[s].snap
          /\ h' = [h EXCEPT ![s] = IdleHandler]
     ELSE /\ h' = [h EXCEPT ![s].pc = "threw"]
          /\ UNCHANGED store
  /\ UNCHANGED <<sock, dedup, acked, now, nextId, sent, voteOut, inbox, ackOut, leaderVars, sessionVars, keyVars, engineVars>>

\* the caller receives the error
UpdateThrown(s) ==
  /\ h[s].op = "update" /\ h[s].pc = "threw"
  /\ h' = [h EXCEPT ![s] = IdleHandler]
  /\ UNCHANGED <<store, sock, dedup, acked, now, nextId, sent, voteOut, inbox, ackOut, leaderVars, sessionVars, keyVars, engineVars>>

\* a created room that players join while updateRoomState is called
NextUpdate ==
  \/ \E s \in Sockets, sid \in JoinSessionIds \cup {None} : JoinCheck(s, sid)
  \/ \E s \in Sockets : JoinRead(s)
  \/ \E s \in Sockets : JoinWrite(s)
  \/ \E s \in Sockets, hostId \in HostIdChoices : UpdateCall(s, hostId)
  \/ \E s \in Sockets : UpdateCommit(s)
  \/ \E s \in Sockets : UpdateThrown(s)

SpecUpdate == Init /\ [][NextUpdate]_vars

\* ------------------------------------------------------------------------
\* Redaction (packages/contracts/src/redaction/views.ts).  An optional field
\* of a view is a sequence: <<>> when the field is absent, <<v>> when it is
\* present with value v.

RoleIds == {"mafia", "detective", "doctor", "townsperson"}
RoleAlignment(roleId) == IF roleId = "mafia" THEN "mafia" ELSE "town"

\* the ids of the mafia-aligned players other than playerId, in player order
RECURSIVE FilterIds(_, _, _)
FilterIds(ids, state, playerId) ==
  IF ids = <<>> THEN <<>>
  ELSE (IF state.players[Head(ids)].alignment = "mafia" /\ Head(ids) # playerId
        THEN <<Head(ids)>> ELSE <<>>) \o FilterIds(Tail(ids), state, playerId)

RECURSIVE OwnResults(_, _)
OwnResults(results, playerId) ==
  IF results = <<>> THEN <<>>
  ELSE (IF Head(results).investigatorId = playerId THEN <<Head(results)>> ELSE <<>>)
       \o OwnResults(Tail(results), playerId)

\* mutant: a dead player's role is shown whatever the settings say
PublicPlayer_deadShown(state, id, playerId) ==
  LET p == state.players[id] IN
  [name |-> p.name, status |-> p.status, connected |-> p.connected,
   roleId |-> IF p.status = "dead" \/ id = playerId THEN <<p.roleId>> ELSE <<>>]

\* one entry of publicPlayers
PublicPlayer(state, id, playerId) ==
  LET p == state.players[id] IN
  [name |-> p.name, status |-> p.status, connected |-> p.connected,
   roleId |-> IF (state.settings.revealRolesOnDeath /\ p.status = "dead") \/ id = playerId
              THEN <<p.roleId>> ELSE <<>>]

\* mutant: the viewer is listed among the teammates
Teammates_withSelf(state, playerId) ==
  IF state.players[playerId].alignment = "mafia"
  THEN <<FilterIds(SortedIds(DOMAIN state.players), state, None)>>
  ELSE <<>>

\* teammate awareness for mafia
Teammates(state, playerId) ==
  IF state.players[playerId].alignment = "mafia"
  THEN <<FilterIds(SortedIds(DOMAIN state.players), state, playerId)>>
  ELSE <<>>

VisibleVotes(state) ==
  IF state.phase = "day_voting"
  THEN IF state.settings.anonymousVoting THEN <<>> ELSE <<state.votes>>
  ELSE IF \/ state.phase = "ended"
          \/ /\ state.phase \in {"day_announcement", "day_discussion"}
             /\ Len(state.votes) > 0
  THEN <<state.votes>>
  ELSE <<>>

\* state.nightActions[playerId]: the entry stored under the key playerId
LockedAction(state, playerId) ==
  LET hit == {i \in 1..Len(state.nightActions) : state.nightActions[i].actionId = playerId}
  IN  IF hit # {} /\ state.phase = "night"
      THEN LET a == state.nightActions[CHOOSE i \in hit : TRUE]
           IN  <<[type |-> a.type, targetId |-> a.targetId]>>
      ELSE <<>>

\* createClientView for a player of the room
createClientView(state, playerId) ==
  LET player == state.players[playerId] IN
  [viewer |-> playerId,
   phase |-> state.phase, timer |-> state.timer, settings |-> state.settings,
   players |-> [id \in DOMAIN state.players |-> PublicPlayer(state, id, playerId)],
   hostId |-> state.hostId, isHost |-> (playerId = state.hostId),
   selfRole |-> [roleId |-> player.roleId, alignment |-> player.alignment,
                 teammates |-> Teammates(state, playerId)],
   publicNarrative |-> state.publicNarrative,
   victoryCondition |-> state.victoryCondition,
   votes |-> VisibleVotes(state),
   investigationResults |-> IF player.roleId = "detective"
                            THEN <<OwnResults(state.investigationResults, playerId)>>
                            ELSE <<>>,
   lockedAction |-> LockedAction(state, playerId)]

\* Engine harness: views of a drawn room state.  Three players of any role
\* and status, any phase, either value of revealRolesOnDeath.

ViewCastIds == 1..3

ViewInput(role, status, phase, reveal) ==
  [hostId |-> 1, phase |-> phase,
   timer |-> PhaseTimerOf(phase, DefaultSettings),
   settings |-> [DefaultSettings EXCEPT !.revealRolesOnDeath = reveal],
   players |-> [i \in ViewCastIds |->
                  MakePlayer(NightCastName(i), role[i], RoleAlignment(role[i]), status[i])],
   nightActions |-> <<>>, votes |-> <<>>,
   investigationResults |-> <<[targetId |-> 1, isMafia |-> (role[1] = "mafia"),
                               investigatorId |-> 3]>>,
   publicNarrative |-> <<>>,
   victoryCondition |-> "none"]

InitView ==
  /\ ServerIdle
  /\ \E role \in [ViewCastIds -> RoleIds], status \in [ViewCastIds -> Statuses],
        phase \in Phases, reveal \in BOOLEAN :
       /\ phase = "lobby" =>
            \A i \in ViewCastIds : role[i] = "townsperson" /\ status[i] = "alive"
       /\ est = ViewInput(role, status, phase, reveal)
  /\ eres = NoResult
  /\ epc = "state"

\* the view of the room for one of its players
ViewBuild(playerId) ==
  /\ epc = "state"
  /\ eres' = createClientView(est, playerId)
  /\ epc' = "viewed"
  /\ UNCHANGED est
  /\ UNCHANGED serverVars

NextView == \E playerId \in ViewCastIds : ViewBuild(playerId)

SpecView == InitView /\ [][NextView]_vars

\* Views of a night in which actions were committed: nightActions is
\* written under the client's actionId (action.submit), one entry per key.
\* Player 1 is mafia, 2 the doctor, 3 the detective.

LockedCastRole(i) == IF i = 1 THEN "mafia" ELSE IF i = 2 THEN "doctor" ELSE "detective"

CommittedAction(actionId, playerId, targetId) ==
  [actionId |-> actionId, playerId |-> playerId,
   type |-> RoleNightType(LockedCastRole(playerId)), targetId |-> targetId,
   submittedAt |-> 0, priority |-> PriorityOf(RoleNightType(LockedCastRole(playerId)))]

InitLocked ==
  /\ ServerIdle
  /\ \E phase \in Phases, reveal \in BOOLEAN, n \in 0..2,
        ids \in [1..2 -> 1..MaxActionId], ps \in [1..2 -> ViewCastIds],
        ts \in [1..2 -> ViewCastIds] :
       /\ ids[1] # ids[2] /\ ps[1] # ps[2]
       /\ \A k \in 1..2 : ts[k] = ps[k] => RoleAllowSelf(LockedCastRole(ps[k]))
       /\ phase # "night" => n = 0
       /\ est = [ViewInput([i \in ViewCastIds |-> LockedCastRole(i)],
                           [i \in ViewCastIds |-> "alive"], phase, reveal)
                   EXCEPT !.nightActions =
                     [k \in 1..n |-> CommittedAction(ids[k], ps[k], ts[k])]]
  /\ eres = NoResult
  /\ epc = "state"

SpecLocked == InitLocked /\ [][NextView]_vars

\* ------------------------------------------------------------------------
\* host.action start with its broadcast of room snapshots

\* a room.snapshot event as far as it is personal to one player
Snapshot(state, playerId) ==
  LET view == createClientView(state, playerId) IN
  [playerId |-> playerId, selfRole |-> view.selfRole,
   investigationResults |-> view.investigationResults,
   lockedAction |-> view.lockedAction]

\* updateRoomState(updatedState) of startGame; the handler goes on to broadcast
StartCommit(s) ==
  /\ h[s].op = "start" /\ h[s].pc = "commit"
  /\ IF UpdateAllowed(h[s].snap)
     THEN /\ store' = h[s].snap
          /\ h' = [h EXCEPT ![s].pc = "broadcast"]
     ELSE /\ h' = [h EXCEPT ![s] = IdleHandler]
          /\ UNCHANGED store
  /\ UNCHANGED <<sock, dedup, acked, now, nextId, sent, voteOut, inbox, ackOut, leaderVars, sessionVars, keyVars, engineVars>>

\* broadcastRoomUpdate: for every connected player, that player's view is
\* emitted to room:<id>, which every socket that joined the room receives
BroadcastRoomUpdate(s) ==
  /\ h[s].op = "start" /\ h[s].pc = "broadcast"
  /\ LET emitted == {Snapshot(store, p) :
                       p \in {q \in DOMAIN store.players : store.players[q].connected}}
     IN  inbox' = [r \in Sockets |-> IF sock[r] # None THEN inbox[r] \cup emitted
                                     ELSE inbox[r]]
  /\ h' = [h EXCEPT ![s] = IdleHandler]
  /\ UNCHANGED <<store, sock, dedup, acked, now, nextId, sent, voteOut, ackOut, leaderVars, sessionVars, keyVars, engineVars>>

\* players a followed socket may be bound to once the lobby has filled
BoundChoices == {None, 1, 2, 3}

\* the lobby has filled; each followed socket has joined as one of the
\* players or has not joined the room
InitBroadcast ==
  /\ \E n \in MinPlayers..MaxPlayers :
       /\ store = LobbyOf(n)
       /\ nextId = n + 1
  /\ \E f \in [Sockets -> BoundChoices] :
       /\ \A r, t \in Sockets : r # t /\ f[r] # None => f[r] # f[t]
       /\ sock = f
  /\ h = [s \in Sockets |-> IdleHandler]
  /\ dedup = <<>>
  /\ acked = {}
  /\ now = 0
  /\ sent = 0
  /\ voteOut = NoReply
  /\ inbox = NoInbox
  /\ ackOut = NoAck
  /\ LeaderIdle
  /\ SessionIdle
  /\ KeysIdle
  /\ EngineIdle

NextBroadcast ==
  \/ \E s \in Sockets, k \in 0..(ShuffleChoices - 1) : StartLoad(s, k)
  \/ \E s \in Sockets : StartCommit(s)
  \/ \E s \in Sockets : BroadcastRoomUpdate(s)
  \/ Tick

SpecBroadcast == InitBroadcast /\ [][NextBroadcast]_vars

\* ------------------------------------------------------------------------
\* Leader election (LeaderElectionService), several instances on one store

\* redis.expire(key, 10): a key that exists gets an expiry, whoever wrote it
WithExpiry(l) == IF l.holder = None THEN l ELSE [l EXCEPT !.ttl = TRUE]

\* stopRenewalProcess, and the call returns
Stopped(i) == [inst EXCEPT ![i].renewing = FALSE, ![i].pc = "idle"]

\* redis.setNX(key, lockData) of tryBecomeLeader
AcquireStep(i) ==
  IF lease.holder = None
  THEN /\ lease' = [holder |-> i, ttl |-> FALSE]
       /\ inst' = [inst EXCEPT ![i].pc = "try_expire"]
  ELSE /\ inst' = [inst EXCEPT ![i].pc = "idle"]
       /\ UNCHANGED lease

\* tryBecomeLeader up to its setNX
TryBecomeLeader(i) ==
  /\ inst[i].up /\ inst[i].pc = "idle"
  /\ AcquireStep(i)
  /\ UNCHANGED <<written, roomVars, sessionVars, keyVars, engineVars>>

\* tryBecomeLeader after a successful setNX: expire, startRenewalProcess
TryExpire(i) ==
  /\ inst[i].up /\ inst[i].pc = "try_expire"
  /\ lease' = WithExpiry(lease)
  /\ inst' = [inst EXCEPT ![i].renewing = TRUE, ![i].pc = "idle"]
  /\ UNCHANGED <<written, roomVars, sessionVars, keyVars, engineVars>>

\* the renewal interval fires: renewLeadership up to its getLeader check;
\* a failed renewal stops the interval
RenewGet(i) ==
  /\ inst[i].up /\ inst[i].pc = "idle" /\ inst[i].renewing
  /\ inst' = IF lease.holder # i THEN Stopped(i)
             ELSE [inst EXCEPT ![i].pc = "renew_set"]
  /\ UNCHANGED <<lease, written, roomVars, sessionVars, keyVars, engineVars>>

\* redis.set(key, updatedData, { XX: true }): an existing key is replaced by
\* this instance's data and loses its expiry
RenewSet(i) ==
  /\ inst[i].up /\ inst[i].pc = "renew_set"
  /\ IF lease.holder # None
     THEN /\ lease' = [holder |-> i, ttl |-> FALSE]
          /\ inst' = [inst EXCEPT ![i].pc = "renew_expire"]
     ELSE /\ inst' = Stopped(i)
          /\ UNCHANGED lease
  /\ UNCHANGED <<written, roomVars, sessionVars, keyVars, engineVars>>

\* redis.expire(key, 10) of renewLeadership, which then returns true
RenewExpire(i) ==
  /\ inst[i].up /\ inst[i].pc = "renew_expire"
  /\ lease' = WithExpiry(lease)
  /\ inst' = [inst EXCEPT ![i].pc = "idle"]
  /\ UNCHANGED <<written, roomVars, sessionVars, keyVars, engineVars>>

\* resignLeadership up to its getLeader check
ResignGet(i) ==
  /\ inst[i].up /\ inst[i].pc = "idle"
  /\ inst' = IF lease.holder = i THEN [inst EXCEPT ![i].pc = "resign_del"] ELSE inst
  /\ UNCHANGED <<lease, written, roomVars, sessionVars, keyVars, engineVars>>

\* redis.del(key), stopRenewalProcess
ResignDel(i) ==
  /\ inst[i].up /\ inst[i].pc = "resign_del"
  /\ lease' = NoLease
  /\ inst' = Stopped(i)
  /\ UNCHANGED <<written, roomVars, sessionVars, keyVars, engineVars>>

\* forceLeaderElection up to its redis.del(key)
ForceDel(i) ==
  /\ inst[i].up /\ inst[i].pc = "idle"
  /\ lease' = NoLease
  /\ inst' = [inst EXCEPT ![i].pc = "force_try"]
  /\ UNCHANGED <<written, roomVars, sessionVars, keyVars, engineVars>>

\* forceLeaderElection's tryBecomeLeader
ForceTry(i) ==
  /\ inst[i].up /\ inst[i].pc = "force_try"
  /\ AcquireStep(i)
  /\ UNCHANGED <<written, roomVars, sessionVars, keyVars, engineVars>>

\* the store drops a key whose expiry has passed
LeaseExpires ==
  /\ lease.holder # None /\ lease.ttl
  /\ lease' = NoLease
  /\ UNCHANGED <<inst, written, roomVars, sessionVars, keyVars, engineVars>>

\* the process of an instance is killed: its intervals and calls are gone
Crash(i) ==
  /\ inst[i].up
  /\ inst' = [inst EXCEPT ![i] = [up |-> FALSE, renewing |-> FALSE, pc |-> "idle"]]
  /\ UNCHANGED <<lease, written, roomVars, sessionVars, keyVars, engineVars>>

\* a command handler on instance i commits the room (updateRoomState); no
\* handler consults the LeaderElectionService
InstanceWrite(i) ==
  /\ inst[i].up
  /\ written' = written \cup {[by |-> i, leader |-> lease.holder]}
  /\ UNCHANGED <<lease, inst, roomVars, sessionVars, keyVars, engineVars>>

InitLease == ServerIdle /\ EngineIdle

NextLease ==
  \/ \E i \in Instances : TryBecomeLeader(i)
  \/ \E i \in Instances : TryExpire(i)
  \/ \E i \in Instances : RenewGet(i)
  \/ \E i \in Instances : RenewSet(i)
  \/ \E i \in Instances : RenewExpire(i)
  \/ \E i \in Instances : ResignGet(i)
  \/ \E i \in Instances : ResignDel(i)
  \/ \E i \in Instances : ForceDel(i)
  \/ \E i \in Instances : ForceTry(i)
  \/ \E i \in Instances : InstanceWrite(i)
  \/ LeaseExpires

SpecLease == InitLease /\ [][NextLease]_vars

\* leader election with kill -9 of an instance while another stays up; the
\* store expires keys, and a running instance completes its calls and keeps
\* asking for leadership
NextCrash ==
  \/ \E i \in Instances : TryBecomeLeader(i)
  \/ \E i \in Instances : TryExpire(i)
  \/ \E i \in Instances : RenewGet(i)
  \/ \E i \in Instances : RenewSet(i)
  \/ \E i \in Instances : RenewExpire(i)
  \/ \E i \in Instances : ResignGet(i)
  \/ \E i \in Instances : ResignDel(i)
  \/ \E i \in Instances : Crash(i) /\ \E j \in Instances \ {i} : inst[j].up
  \/ LeaseExpires

SpecCrash ==
  /\ InitLease
  /\ [][NextCrash]_vars
  /\ WF_vars(LeaseExpires)
  /\ \A i \in Instances :
       /\ WF_vars(TryBecomeLeader(i))
       /\ WF_vars(TryExpire(i))
       /\ WF_vars(RenewGet(i))
       /\ WF_vars(RenewSet(i))
       /\ WF_vars(RenewExpire(i))
       /\ WF_vars(ResignDel(i))

\* ------------------------------------------------------------------------
\* session.resume and disconnect (SessionService, setupSocketHandlers)

\* the socket id of a connection that no longer exists
GoneSocket == 3

\* the sessionId registered at join, and one of an earlier login
CurrentSid == 1
StaleSid == 2

\* players whose tokens the followed sockets present
ResumePlayers == {1, 2}

\* SessionService.isValidSession
isValidSession(playerId, sessionId) ==
  playerId \in DOMAIN session /\ session[playerId].sessionId = sessionId

\* sendError('UNAUTHORIZED', ...) and return
ResumeRejected(s) ==
  /\ resumeOut' = [socket |-> s, code |-> "UNAUTHORIZED"]
  /\ UNCHANGED <<h, session>>

\* session.resume up to isValidSession: tokenOk says that the JWT verifies and
\* carries the payload's roomId and sessionId
ResumeCheck(s, sub, sessionId, tokenOk) ==
  /\ h[s].op = "idle" /\ conn[s] = "open"
  /\ IF ~tokenOk THEN ResumeRejected(s)
     ELSE IF ~isValidSession(sub, sessionId) THEN ResumeRejected(s)
     ELSE /\ h' = [h EXCEPT ![s] = Busy("resume", "evict", sub, None, "", None, store)]
          /\ UNCHANGED <<session, resumeOut>>
  /\ UNCHANGED <<store, sock, dedup, acked, now, nextId, sent, voteOut, inbox, ackOut,
                 conn, evicted, leaderVars, keyVars, engineVars>>

\* getSession, then session.evicted and disconnect for the old socket when it
\* is another socket that io.sockets.sockets still knows
ResumeEvict(s) ==
  /\ h[s].op = "resume" /\ h[s].pc = "evict"
  /\ LET old == session[h[s].playerId].socketId IN
       IF old # s /\ old \in Sockets /\ conn[old] = "open"
       THEN /\ evicted' = evicted \cup {old}
            /\ conn' = [conn EXCEPT ![old] = "closing"]
       ELSE UNCHANGED <<evicted, conn>>
  /\ h' = [h EXCEPT ![s].pc = "update"]
  /\ UNCHANGED <<store, sock, dedup, acked, now, nextId, sent, voteOut, inbox, ackOut,
                 session, resumeOut, leaderVars, keyVars, engineVars>>

\* updateSessionSocket(sub, roomId, socket.id)
ResumeUpdate(s) ==
  /\ h[s].op = "resume" /\ h[s].pc = "update"
  /\ session' = [session EXCEPT ![h[s].playerId].socketId = s]
  /\ h' = [h EXCEPT ![s].pc = "bind"]
  /\ UNCHANGED <<store, sock, dedup, acked, now, nextId, sent, voteOut, inbox, ackOut,
                 conn, evicted, resumeOut, leaderVars, keyVars, engineVars>>

\* updatePlayerConnection(roomId, playerId, connected)
WithConnection(state, playerId, connected) ==
  IF playerId \in DOMAIN state.players
  THEN [state EXCEPT !.players[playerId].connected = connected]
  ELSE state

\* getRoomState, socket.join, currentPlayerId, updatePlayerConnection(true)
\* and the fresh room.snapshot
ResumeBind(s) ==
  /\ h[s].op = "resume" /\ h[s].pc = "bind"
  /\ sock' = [sock EXCEPT ![s] = h[s].playerId]
  /\ store' = WithConnection(store, h[s].playerId, TRUE)
  /\ resumeOut' = [socket |-> s, code |-> "snapshot"]
  /\ h' = [h EXCEPT ![s] = IdleHandler]
  /\ UNCHANGED <<dedup, acked, now, nextId, sent, voteOut, inbox, ackOut,
                 session, conn, evicted, leaderVars, keyVars, engineVars>>

\* socket.on('disconnect') of a socket the server has disconnected
Disconnect(s) ==
  /\ conn[s] = "closing"
  /\ conn' = [conn EXCEPT ![s] = "closed"]
  /\ store' = IF sock[s] # None THEN WithConnection(store, sock[s], FALSE) ELSE store
  /\ UNCHANGED <<h, sock, dedup, acked, now, nextId, sent, voteOut, inbox, ackOut,
                 session, evicted, resumeOut, leaderVars, keyVars, engineVars>>

\* a started room whose players registered their sessions at join; player 1
\* is still on socket 1 or, like the others, has lost the connection
InitResume ==
  /\ \E k \in 0..(ShuffleChoices - 1) : store = StartedState(LobbyOf(MinPlayers), k, 0)
  /\ nextId = MinPlayers + 1
  /\ \E first \in {1, GoneSocket} :
       /\ session = [p \in 1..MinPlayers |->
                       [sessionId |-> CurrentSid,
                        socketId |-> IF p = 1 THEN first ELSE GoneSocket]]
       /\ sock = [s \in Sockets |-> IF s = first THEN 1 ELSE None]
  /\ conn = [s \in Sockets |-> "open"]
  /\ evicted = {}
  /\ resumeOut = [socket |-> None, code |-> "none"]
  /\ h = [s \in Sockets |-> IdleHandler]
  /\ dedup = <<>>
  /\ acked = {}
  /\ now = 0
  /\ sent = 0
  /\ voteOut = NoReply
  /\ inbox = NoInbox
  /\ ackOut = NoAck
  /\ LeaderIdle
  /\ KeysIdle
  /\ EngineIdle

NextResume ==
  \/ \E s \in Sockets, sub \in ResumePlayers, sid \in {CurrentSid, StaleSid},
        tokenOk \in BOOLEAN : ResumeCheck(s, sub, sid, tokenOk)
  \/ \E s \in Sockets : ResumeEvict(s)
  \/ \E s \in Sockets : ResumeUpdate(s)
  \/ \E s \in Sockets : ResumeBind(s)
  \/ \E s \in Sockets : Disconnect(s)

SpecResume == InitResume /\ [][NextResume]_vars

\* ------------------------------------------------------------------------
\* startGame's role assignment on lobbies of every size

\* settings.maxPlayers as createRoom sets it
CreateRoomMaxPlayers == 15

Reversed(ids) == [i \in 1..Len(ids) |-> ids[Len(ids) + 1 - i]]

\* explored outcomes of the random sort: the rotations and their reversals
ShuffleOutcomes(ids) ==
  {Shuffled(ids, k) : k \in 0..(Len(ids) - 1)} \cup
  {Reversed(Shuffled(ids, k)) : k \in 0..(Len(ids) - 1)}

InitRoles ==
  /\ \E n \in MinPlayers..MaxRolePlayers :
       est = [LobbyOf(n) EXCEPT !.settings.maxPlayers = CreateRoomMaxPlayers]
  /\ eres = NoResult
  /\ epc = "lobby"
  /\ ServerIdle

\* startGame once the host and player count checks have passed
RolesStart(order, t) ==
  /\ epc = "lobby"
  /\ Cardinality(DOMAIN est.players) >= est.settings.minPlayers
  /\ est' = StartedWith(est, order, t)
  /\ epc' = "started"
  /\ UNCHANGED eres
  /\ UNCHANGED serverVars

NextRoles ==
  \E order \in ShuffleOutcomes(SortedIds(DOMAIN est.players)), t \in 0..MaxClock :
    RolesStart(order, t)

SpecRoles == InitRoles /\ [][NextRoles]_vars

\* ------------------------------------------------------------------------
\* action.submit when a store call of the commit fails

\* roomService.updateRoomState rejects: the handler's catch logs, sends
\* UNAUTHORIZED and returns; the dedup record is not touched
CommitThrows(s) ==
  /\ h[s].op = "submit" /\ h[s].pc = "commit"
  /\ h' = [h EXCEPT ![s] = IdleHandler]
  /\ UNCHANGED <<store, sock, dedup, acked, now, nextId, sent, voteOut, inbox, ackOut,
                 leaderVars, sessionVars, keyVars, engineVars>>

NextFaulty ==
  \/ \E s \in Sockets, a \in ActionIds, type \in ActionTypes, t \in TargetIds :
       SubmitDedup(s, a, type, t)
  \/ \E s \in Sockets : SubmitLoad(s)
  \/ \E s \in Sockets : HandlerFail(s)
  \/ \E s \in Sockets : HandlerCommit(s)
  \/ \E s \in Sockets : CommitThrows(s)
  \/ \E s \in Sockets : SubmitComplete(s)

\* every handler that has started runs to its end
SpecFaulty ==
  /\ InitSubmit
  /\ [][NextFaulty]_vars
  /\ \A s \in Sockets :
       /\ WF_vars(SubmitLoad(s))
       /\ WF_vars(HandlerFail(s))
       /\ WF_vars(HandlerCommit(s) \/ CommitThrows(s))
       /\ WF_vars(SubmitComplete(s))

\* ------------------------------------------------------------------------
\* The completion predicate on states of every phase

CompletionCastIds == 1..3

\* a room whose players hold the given roles, with one night action of each
\* submitter and one vote (an abstention for the lowest id) of each voter
CompletionInput(role, status, phase, submitters, voters) ==
  LET subs == SortedIds(submitters)
      vots == SortedIds(voters)
      base ==
      [hostId |-> 1, phase |-> phase,
       timer |-> PhaseTimerOf(phase, DefaultSettings),
       settings |-> DefaultSettings,
       players |-> [i \in CompletionCastIds |->
                      MakePlayer(NightCastName(i), role[i], RoleAlignment(role[i]), status[i])],
       nightActions |-> [k \in 1..Len(subs) |->
                           [actionId |-> k, playerId |-> subs[k],
                            type |-> RoleNightType(role[subs[k]]),
                            targetId |-> subs[k], submittedAt |-> 0,
                            priority |-> PriorityOf(RoleNightType(role[subs[k]]))]],
       votes |-> [k \in 1..Len(vots) |->
                    [actionId |-> k, playerId |-> vots[k],
                     targetId |-> IF k = 1 THEN None ELSE vots[1], submittedAt |-> 0]],
       investigationResults |-> <<>>, publicNarrative |-> <<>>,
       victoryCondition |-> "none"]
  IN  IF phase = "ended"
      THEN [base EXCEPT !.victoryCondition = checkVictoryCondition(base)]
      ELSE base

InitCompletion ==
  /\ ServerIdle
  /\ \E role \in [CompletionCastIds -> RoleIds], status \in [CompletionCastIds -> Statuses],
        phase \in Phases :
       /\ phase = "lobby" =>
            \A i \in CompletionCastIds : role[i] = "townsperson" /\ status[i] = "alive"
       /\ \E submitters \in SUBSET {i \in CompletionCastIds :
                                      /\ phase = "night" /\ status[i] = "alive"
                                      /\ RoleNightType(role[i]) # ""},
             voters \in SUBSET {i \in CompletionCastIds :
                                  phase = "day_voting" /\ status[i] = "alive"} :
            est = CompletionInput(role, status, phase, submitters, voters)
       /\ phase = "ended" => est.victoryCondition # "none"
  /\ eres = [complete |-> FALSE]
  /\ epc = "state"

\* arePhaseActionsComplete(state)
CompletionCheck ==
  /\ epc = "state"
  /\ eres' = [complete |-> arePhaseActionsComplete(est)]
  /\ epc' = "checked"
  /\ UNCHANGED est
  /\ UNCHANGED serverVars

NextCompletion == CompletionCheck

SpecCompletion == InitCompletion /\ [][NextCompletion]_vars

\* ------------------------------------------------------------------------
\* A lobby that can start while players still join: MinPlayers players are
\* in, the host is on socket 1 and maxPlayers is createRoom's 15

InitLobby ==
  /\ store = [LobbyOf(MinPlayers) EXCEPT !.settings.maxPlayers = CreateRoomMaxPlayers]
  /\ h = [s \in Sockets |-> IdleHandler]
  /\ sock = [s \in Sockets |-> IF s = 1 THEN 1 ELSE None]
  /\ dedup = <<>>
  /\ acked = {}
  /\ now = 0
  /\ nextId = MinPlayers + 1
  /\ sent = 0
  /\ voteOut = NoReply
  /\ inbox = NoInbox
  /\ ackOut = NoAck
  /\ LeaderIdle
  /\ SessionIdle
  /\ KeysIdle
  /\ EngineIdle

SpecLobby == InitLobby /\ [][Next]_vars

\* ------------------------------------------------------------------------
\* Room and room-code keys and their expiry (RoomService)

\* createRoom up to the code reservation: generateId, generateRoomCode,
\* setNX(room_code:<code>, roomId) and expire(86400).  When the code is
\* taken the call starts over with a new id and code.
CreateReserve(c) ==
  /\ nextId < Cardinality(RoomIds)
  /\ codeKey[c].roomId = None
  /\ nextId' = nextId + 1
  /\ codeKey' = [codeKey EXCEPT ![c] = [roomId |-> nextId', ttl |-> IdleTtl]]
  /\ roomKey' = [roomKey EXCEPT ![nextId'] = [state |-> "creating", code |-> c, ttl |-> 0]]
  /\ UNCHANGED <<store, h, sock, dedup, acked, now, sent, voteOut, inbox, ackOut,
                 leaderVars, sessionVars, engineVars>>

\* createRoom's hSet(room:<id>, {state, code, hostId, createdAt}) and expire(86400)
CreateStore(r) ==
  /\ roomKey[r].state = "creating"
  /\ roomKey' = [roomKey EXCEPT ![r].state = "stored", ![r].ttl = IdleTtl]
  /\ UNCHANGED <<codeKey, roomVars, leaderVars, sessionVars, engineVars>>

\* updateRoomState's hSet(room:<id>, 'state', ...) and expire(room:<id>, 86400)
CommitRoom(r) ==
  /\ roomKey[r].state = "stored"
  /\ roomKey[r].ttl < IdleTtl
  /\ roomKey' = [roomKey EXCEPT ![r].ttl = IdleTtl]
  /\ UNCHANGED <<codeKey, roomVars, leaderVars, sessionVars, engineVars>>

\* half a day passes (no createRoom call lasts that long): every key comes
\* half a day closer to its expiry and the store drops the keys that reach it
KeyTick ==
  /\ now < MaxKeyTicks
  /\ \A r \in RoomIds : roomKey[r].state # "creating"
  /\ now' = now + 1
  /\ roomKey' = [r \in RoomIds |->
                   IF roomKey[r].state # "stored" THEN roomKey[r]
                   ELSE IF roomKey[r].ttl = 1 THEN NoRoomKey
                   ELSE [roomKey[r] EXCEPT !.ttl = @ - 1]]
  /\ codeKey' = [c \in Codes |->
                   IF codeKey[c].roomId = None THEN codeKey[c]
                   ELSE IF codeKey[c].ttl = 1 THEN NoCodeKey
                   ELSE [codeKey[c] EXCEPT !.ttl = @ - 1]]
  /\ UNCHANGED <<store, h, sock, dedup, acked, nextId, sent, voteOut, inbox, ackOut,
                 leaderVars, sessionVars, engineVars>>

InitKeys == ServerIdle /\ EngineIdle

NextKeys ==
  \/ \E c \in Codes : CreateReserve(c)
  \/ \E r \in RoomIds : CreateStore(r)
  \/ \E r \in RoomIds : CommitRoom(r)
  \/ KeyTick

SpecKeys == InitKeys /\ [][NextKeys]_vars

\* ------------------------------------------------------------------------
\* The server started without a store client (redisClient = null)

\* a started room kept in RoomService's in-memory maps; registerSession
\* returned at create and join without storing a session, and a socket is
\* still bound to its player or is a new connection
InitFallback ==
  /\ \E k \in 0..(ShuffleChoices - 1) : store = StartedState(LobbyOf(MinPlayers), k, 0)
  /\ nextId = MinPlayers + 1
  /\ session = <<>>
  /\ \E b \in [Sockets -> {None} \cup ResumePlayers] :
       /\ \A s, t \in Sockets : (s # t /\ b[s] # None) => b[s] # b[t]
       /\ sock = b
  /\ conn = [s \in Sockets |-> "open"]
  /\ evicted = {}
  /\ resumeOut = [socket |-> None, code |-> "none"]
  /\ h = [s \in Sockets |-> IdleHandler]
  /\ dedup = <<>>
  /\ acked = {}
  /\ now = 0
  /\ sent = 0
  /\ voteOut = NoReply
  /\ inbox = NoInbox
  /\ ackOut = NoAck
  /\ LeaderIdle
  /\ KeysIdle
  /\ EngineIdle

\* action.submit: outside a room sendError; in a room checkAndMarkAction
\* calls setNX on the null client, the TypeError reaches the handler's catch
\* and the client is sent an error
FallbackSubmit(s, actionId, type, targetId) ==
  /\ h[s].op = "idle"
  /\ sent < MaxSubmits
  /\ sent' = sent + 1
  /\ UNCHANGED <<store, h, sock, dedup, acked, now, nextId, voteOut, inbox, ackOut,
                 leaderVars, sessionVars, keyVars, engineVars>>

\* vote.cast: the same two exits, both answered UNAUTHORIZED
FallbackVote(s, actionId, targetId) ==
  /\ h[s].op = "idle"
  /\ sent < MaxSubmits
  /\ sent' = sent + 1
  /\ voteOut' = [playerId |-> sock[s], actionId |-> actionId,
                 targetId |-> targetId, code |-> "UNAUTHORIZED"]
  /\ UNCHANGED <<store, h, sock, dedup, acked, now, nextId, inbox, ackOut,
                 leaderVars, sessionVars, keyVars, engineVars>>

\* session.resume is the handler of the store-backed server: getSession
\* returns null without a client, so isValidSession is false
NextFallback ==
  \/ \E s \in Sockets, sub \in ResumePlayers, sid \in {CurrentSid, StaleSid},
        tokenOk \in BOOLEAN : ResumeCheck(s, sub, sid, tokenOk)
  \/ \E s \in Sockets, a \in ActionIds, type \in ActionTypes, t \in TargetIds :
       FallbackSubmit(s, a, type, t)
  \/ \E s \in Sockets, a \in ActionIds, t \in VoteTargets : FallbackVote(s, a, t)

SpecFallback == InitFallback /\ [][NextFallback]_vars

\* ------------------------------------------------------------------------
\* Properties of the command handlers

\* C1 (checked under SpecSubmit): whatever the interleaving of the handlers'
\* steps, every acknowledged night action is in the committed nightActions.
\* Only actions whose actionId no other player has used are considered, so a
\* later entry under the same key is not what removes it.
C1_AckedActionCommitted ==
  \A a \in acked :
    (\A k \in DOMAIN dedup : k[1] = a.actionId => k[2] = a.playerId)
    => \E i \in 1..Len(store.nightActions) :
         /\ store.nightActions[i].actionId = a.actionId
         /\ store.nightActions[i].playerId = a.playerId

\* C2 (checked under Spec): after any interleaving of room.join commands the
\* committed room state has at most settings.maxPlayers players.
C2_PlayersWithinMax ==
  Cardinality(DOMAIN store.players) <= store.settings.maxPlayers

\* C3 (checked under Spec): once the phase is not lobby, no step changes any
\* player's roleId or alignment.
C3_RolesFixedAfterLobby ==
  [][store.phase # "lobby" =>
       \A id \in DOMAIN store.players :
         /\ id \in DOMAIN store'.players
         /\ store'.players[id].roleId = store.players[id].roleId
         /\ store'.players[id].alignment = store.players[id].alignment]_vars

\* C4 (checked under Spec): a host start command passes startGame's checks
\* only when the caller is the host, the phase is lobby and there are at
\* least settings.minPlayers players.
C4_StartOnlyFromLobby ==
  [][\A s \in Sockets :
       (h[s].op = "idle" /\ h'[s].op = "start") =>
         /\ sock[s] = store.hostId
         /\ store.phase = "lobby"
         /\ Cardinality(DOMAIN store.players) >= store.settings.minPlayers]_vars

\* C15 (checked under SpecStall): in a started room, once the phase timer has
\* expired or the phase's completion predicate holds, the phase is eventually
\* advanced.
C15_DuePhaseAdvances ==
  (store.phase = "night" /\ shouldAdvancePhase(store, now)) ~> (store.phase # "night")

\* C19 (checked under SpecBroadcast): every room.snapshot a socket receives
\* is the view built for the player bound to that socket.
C19_SnapshotOnlyToItsPlayer ==
  \A s \in Sockets : \A m \in inbox[s] : m.playerId = sock[s]

\* the vote is one the voting rule admits: voter alive, target null or alive
WellFormedVote(state, p, t) ==
  /\ HasPlayer(state, p) /\ state.players[p].status = "alive"
  /\ t = None \/ (HasPlayer(state, t) /\ state.players[t].status = "alive")

\* this step handled a vote.cast that is not a resubmission
FreshVote ==
  /\ sent' # sent
  /\ DedupKey(voteOut'.actionId, voteOut'.playerId) \notin DOMAIN dedup

C6_VoteAcceptedExactlyWhen ==
  [][FreshVote =>
       /\ (voteOut'.code = "OK") <=>
            (store.phase = "day_voting"
               /\ WellFormedVote(store, voteOut'.playerId, voteOut'.targetId))
       /\ voteOut'.code = "OK" =>
            \E i \in 1..Len(store'.votes) :
              /\ store'.votes[i].playerId = voteOut'.playerId
              /\ store'.votes[i].targetId = voteOut'.targetId
       /\ store.phase # "day_voting" => voteOut'.code = "WRONG_PHASE"]_vars

\* ------------------------------------------------------------------------
\* Properties of night resolution (checked under SpecNight)

NightOutcome(r) == <<r.killedPlayerId, r.investigationResults, r.narrative>>

AliveIn(state, id) == HasPlayer(state, id) /\ state.players[id].status = "alive"

\* an alive doctor's PROTECT on player t is among the night actions
AliveDoctorProtects(state, t) ==
  \E j \in 1..Len(state.nightActions) :
    LET b == state.nightActions[j] IN
      /\ b.type = "PROTECT"
      /\ b.targetId = t
      /\ AliveIn(state, b.playerId)
      /\ state.players[b.playerId].roleId = "doctor"

\* a KILL by an alive mafia player on an alive non-mafia target
MafiaKillOnTown(state, a) ==
  /\ a.type = "KILL"
  /\ AliveIn(state, a.playerId)
  /\ state.players[a.playerId].alignment = "mafia"
  /\ AliveIn(state, a.targetId)
  /\ state.players[a.targetId].alignment # "mafia"

\* exactly player t dies and the elimination line is appended
ExactlyKilled(state, r, t) ==
  /\ r.killedPlayerId = t
  /\ r.updatedState.players = [state.players EXCEPT ![t].status = "dead"]
  /\ r.updatedState.publicNarrative =
       state.publicNarrative \o <<EliminatedLine(state.players[t].name)>>

\* C7: night resolution gives the same killed player, investigation results
\* and narrative for every permutation of the insertion order of nightActions.
C7_PermutationInvariant ==
  epc = "resolved" =>
    \A perm \in Perms(est.nightActions) :
      NightOutcome(resolveNightActions([est EXCEPT !.nightActions = perm]))
        = NightOutcome(eres)

\* C8 (as claimed): whenever some alive mafia player has a KILL on an alive
\* non-mafia target that no alive doctor protects, exactly that target dies
\* and "<name> was eliminated during the night." is appended.
C8_AnyUnprotectedKillKills ==
  epc = "resolved" =>
    \A i \in 1..Len(est.nightActions) :
      LET a == est.nightActions[i] IN
        (MafiaKillOnTown(est, a) /\ ~AliveDoctorProtects(est, a.targetId))
          => ExactlyKilled(est, eres, a.targetId)

\* the KILL that is processed last: no KILL was inserted after it
IsLastKill(state, i) ==
  /\ state.nightActions[i].type = "KILL"
  /\ \A j \in (i + 1)..Len(state.nightActions) : state.nightActions[j].type # "KILL"

\* C8 (amended): when the KILL processed last is by an alive mafia player on
\* an alive non-mafia target that no alive doctor protects, exactly that
\* target dies, nobody else changes status and the elimination line is appended.
C8_LastUnprotectedKillKills ==
  epc = "resolved" =>
    \A i \in 1..Len(est.nightActions) :
      LET a == est.nightActions[i] IN
        (IsLastKill(est, i) /\ MafiaKillOnTown(est, a)
           /\ ~AliveDoctorProtects(est, a.targetId))
          => ExactlyKilled(est, eres, a.targetId)

C8_Witness ==
  /\ epc = "resolved"
  /\ Len(est.nightActions) = 2
  /\ est.nightActions[1].type = "PROTECT"
  /\ IsLastKill(est, 2)
  /\ MafiaKillOnTown(est, est.nightActions[2])
  /\ ~AliveDoctorProtects(est, est.nightActions[2].targetId)
  /\ eres.updatedState.players[est.nightActions[2].targetId].status = "dead"

\* the kill queued when the PROTECT actions are reached: the target of the
\* KILL processed last if that KILL passed validation, else none
QueuedKillTarget(state) ==
  IF \E i \in 1..Len(state.nightActions) : IsLastKill(state, i)
  THEN LET i == CHOOSE k \in 1..Len(state.nightActions) : IsLastKill(state, k)
           a == state.nightActions[i]
       IN  IF /\ AliveIn(state, a.targetId)
              /\ AliveIn(state, a.playerId)
              /\ state.players[a.playerId].alignment = "mafia"
           THEN a.targetId ELSE None
  ELSE None

\* C9: a PROTECT by an alive doctor on the queued kill target cancels the kill
\* (nobody dies, statuses unchanged, "No one died during the night."); with
\* no such PROTECT (other target, non-doctor or dead actor) the queued target dies.
C9_ProtectCancelsKill ==
  epc = "resolved" =>
    LET q == QueuedKillTarget(est) IN
      /\ (q # None /\ AliveDoctorProtects(est, q)) =>
            /\ eres.killedPlayerId = None
            /\ eres.updatedState.players = est.players
            /\ eres.updatedState.publicNarrative = est.publicNarrative \o <<NoOneDiedLine>>
      /\ (q # None /\ ~AliveDoctorProtects(est, q)) => ExactlyKilled(est, eres, q)

C9_Witness ==
  /\ epc = "resolved"
  /\ QueuedKillTarget(est) = 3
  /\ \E j \in 1..Len(est.nightActions) :
       /\ est.nightActions[j].type = "PROTECT"
       /\ est.nightActions[j].playerId = 3
       /\ est.nightActions[j].targetId = 3
  /\ est.players[3].status = "alive"
  /\ eres.killedPlayerId = None
  /\ eres.narrative = <<NoOneDiedLine>>

ValidInvestigate(state, a) ==
  /\ a.type = "INVESTIGATE"
  /\ AliveIn(state, a.playerId)
  /\ state.players[a.playerId].roleId = "detective"
  /\ AliveIn(state, a.targetId)

ExpectedInvestigations(state) ==
  LET valid == SelectSeq(state.nightActions, LAMBDA a : ValidInvestigate(state, a))
  IN  [k \in 1..Len(valid) |->
         [targetId |-> valid[k].targetId,
          isMafia |-> state.players[valid[k].targetId].alignment = "mafia",
          investigatorId |-> valid[k].playerId]]

\* C10: night resolution appends to investigationResults exactly one entry
\* {investigatorId, targetId, isMafia} per INVESTIGATE by an alive detective on
\* an alive target, after the earlier entries; any other INVESTIGATE adds nothing.
C10_InvestigationAppended ==
  epc = "resolved" =>
    /\ eres.updatedState.investigationResults =
         est.investigationResults \o ExpectedInvestigations(est)
    /\ eres.investigationResults = ExpectedInvestigations(est)

C10_Witness ==
  /\ epc = "resolved"
  /\ est.investigationResults = <<PriorInvestigation>>
  /\ Len(est.nightActions) = 2
  /\ ValidInvestigate(est, est.nightActions[1])
  /\ ~ValidInvestigate(est, est.nightActions[2])
  /\ est.nightActions[2].type = "INVESTIGATE"
  /\ est.nightActions[1].targetId = 3
  /\ eres.updatedState.investigationResults =
       <<PriorInvestigation, [targetId |-> 3, isMafia |-> FALSE, investigatorId |-> 4]>>

\* ------------------------------------------------------------------------
\* Properties of voting resolution (checked under SpecTally)

AliveSet(state) == {id \in DOMAIN state.players : state.players[id].status = "alive"}

\* number of votes naming id
TallyOf(state, id) ==
  Cardinality({i \in 1..Len(state.votes) : state.votes[i].targetId = id})

MajorityThreshold(state) == (Cardinality(AliveSet(state)) \div 2) + 1

\* nobody lynched: statuses as before, the no-lynch line appended
NoLynchOutcome(state, r) ==
  /\ r.lynchTargetId = None
  /\ r.updatedState.players = state.players
  /\ r.updatedState.publicNarrative = Append(state.publicNarrative, NoLynchLine)

C12_PluralityTieLynchesNobody ==
  (epc = "tallied" /\ est.settings.votingMode = "plurality") =>
    \A x \in DOMAIN est.players :
      (eres.lynchTargetId = x) <=>
        /\ x \in AliveSet(est)
        /\ TallyOf(est, x) > 0
        /\ \A y \in AliveSet(est) \ {x} : TallyOf(est, y) < TallyOf(est, x)

\* C12, amended: under plurality voting X is lynched if and only if X's
\* tally is above 0, no alive player has a higher tally and no alive player
\* enumerated before X has an equal one; nobody is lynched only when every
\* tally is 0.
C12_PluralityFirstHighestLynched ==
  (epc = "tallied" /\ est.settings.votingMode = "plurality") =>
    /\ \A x \in DOMAIN est.players :
         (eres.lynchTargetId = x) <=>
           /\ x \in AliveSet(est)
           /\ TallyOf(est, x) > 0
           /\ \A y \in AliveSet(est) : TallyOf(est, y) <= TallyOf(est, x)
           /\ \A y \in AliveSet(est) : y < x => TallyOf(est, y) < TallyOf(est, x)
    /\ (eres.lynchTargetId = None) <=> (\A y \in AliveSet(est) : TallyOf(est, y) = 0)
    /\ eres.lynchTargetId # None =>
         /\ eres.updatedState.players[eres.lynchTargetId].status = "dead"
         /\ \A y \in DOMAIN est.players \ {eres.lynchTargetId} :
              eres.updatedState.players[y] = est.players[y]

\* two players tie for the highest tally and the first of them is lynched
C12_Witness ==
  /\ epc = "tallied" /\ est.settings.votingMode = "plurality"
  /\ TallyOf(est, 2) = 2 /\ TallyOf(est, 3) = 2 /\ TallyOf(est, 1) < 2
  /\ eres.lynchTargetId = 2
  /\ eres.updatedState.players[2].status = "dead"

\* ------------------------------------------------------------------------
\* Properties of the victory check and of phase advance (checked under SpecPhase)

AliveOf(state, alignment) ==
  {id \in DOMAIN state.players :
     state.players[id].status = "alive" /\ state.players[id].alignment = alignment}

MafiaWins(state) ==
  Cardinality(AliveOf(state, "mafia"))
    >= Cardinality(AliveOf(state, "town")) + Cardinality(AliveOf(state, "neutral"))

TownWins(state) == ~MafiaWins(state) /\ AliveOf(state, "mafia") = {}

\* this step applied advancePhase
AdvanceStep == epc' = "phase"

\* C13: the victory condition advancePhase computes for a state is
\* mafia-victory iff aliveMafia >= aliveTown + aliveNeutral, otherwise
\* town-victory iff aliveMafia = 0, otherwise none.
C13_VictoryCheck ==
  [][AdvanceStep =>
       /\ (est'.victoryCondition = "mafia-victory") <=> MafiaWins(est)
       /\ (est'.victoryCondition = "town-victory") <=> TownWins(est)
       /\ (est'.victoryCondition = "none") <=> (~MafiaWins(est) /\ ~TownWins(est))]_vars

\* after a resolution the game was found won by the mafia although a
\* neutral player is alive
C13_Witness ==
  /\ epc = "phase" /\ est.phase = "ended"
  /\ Len(est.publicNarrative) >= 1
  /\ est.victoryCondition = "mafia-victory"
  /\ AliveOf(est, "neutral") # {}

\* C14: when a victory condition holds in the state a night or voting
\* resolution produced, the phase advance that follows yields phase ended,
\* no timer and that victory condition; a state whose victory condition is
\* none never advances to ended.
C14_VictoryEndsGame ==
  [][(AdvanceStep /\ est.phase # "ended") =>
       /\ (epc = "resolved" /\ MafiaWins(est)) =>
            /\ est'.phase = "ended" /\ est'.timer = NoTimer
            /\ est'.victoryCondition = "mafia-victory"
       /\ (epc = "resolved" /\ TownWins(est)) =>
            /\ est'.phase = "ended" /\ est'.timer = NoTimer
            /\ est'.victoryCondition = "town-victory"
       /\ (~MafiaWins(est) /\ ~TownWins(est)) => est'.phase # "ended"]_vars

\* the last mafia player was lynched and the game ended with a town victory
C14_Witness ==
  /\ epc = "phase" /\ est.phase = "ended"
  /\ est.victoryCondition = "town-victory"
  /\ Len(est.publicNarrative) = 1
  /\ est.publicNarrative[1].text = "was lynched with"
  /\ eres.lynchTargetId # None

TimerNullIffIdle(state) == (state.phase \in {"lobby", "ended"}) <=> (state.timer = NoTimer)

C17_HostIdPreserved ==
  /\ [](store.hostId = 1 /\ store.hostId \in DOMAIN store.players)
  /\ [][\A s \in Sockets :
          (h[s].op = "update" /\ h[s].pc = "commit" /\ h'[s].pc # "commit"
             /\ (h[s].snap.hostId = None \/ h[s].snap.hostId # store.hostId))
          => (store' = store /\ h'[s].pc = "threw")]_vars

\* an update carrying another player's id as hostId has thrown
C17_Witness ==
  \E s \in Sockets :
    /\ h[s].op = "update" /\ h[s].pc = "threw"
    /\ h[s].snap.hostId = 2
    /\ 2 \in DOMAIN store.players
    /\ store.hostId = 1

\* ------------------------------------------------------------------------
\* Properties of redaction (checked under SpecView)

\* C18 as stated: a player's entry of a view carries roleId if and only if
\* the player is the viewer, or roles are revealed on death and the player
\* is dead, or the phase is ended.
C18_RoleShownAlsoWhenEnded ==
  epc = "viewed" =>
    \A id \in DOMAIN est.players :
      (eres.players[id].roleId # <<>>) <=>
        \/ id = eres.viewer
        \/ est.settings.revealRolesOnDeath /\ est.players[id].status = "dead"
        \/ est.phase = "ended"

\* C18, amended: a player's entry of a view carries roleId if and only if
\* the player is the viewer, or roles are revealed on death and the player
\* is dead, in every phase including ended; a role that is carried is the
\* player's own.
C18_RoleShownToSelfOrOnDeath ==
  epc = "viewed" =>
    \A id \in DOMAIN est.players :
      /\ (eres.players[id].roleId # <<>>) <=>
           \/ id = eres.viewer
           \/ est.settings.revealRolesOnDeath /\ est.players[id].status = "dead"
      /\ eres.players[id].roleId # <<>> =>
           eres.players[id].roleId = <<est.players[id].roleId>>

\* the game has ended and the view hides the role of an alive player other
\* than the viewer, while showing the viewer's own and a dead player's
C18_Witness ==
  /\ epc = "viewed" /\ est.phase = "ended" /\ eres.viewer = 1
  /\ est.settings.revealRolesOnDeath
  /\ est.players[2].status = "alive" /\ eres.players[2].roleId = <<>>
  /\ est.players[3].status = "dead" /\ eres.players[3].roleId # <<>>
  /\ eres.players[1].roleId # <<>>

\* C20: selfRole.teammates is present if and only if the viewer's alignment
\* is mafia; when present it lists exactly the other mafia-aligned players
\* and never the viewer.
C20_TeammatesOnlyForMafia ==
  epc = "viewed" =>
    LET t == eres.selfRole.teammates
        others == {id \in DOMAIN est.players :
                     est.players[id].alignment = "mafia" /\ id # eres.viewer}
    IN  /\ (t # <<>>) <=> (est.players[eres.viewer].alignment = "mafia")
        /\ t # <<>> => /\ Range(t[1]) = others
                       /\ Len(t[1]) = Cardinality(others)
                       /\ eres.viewer \notin Range(t[1])

\* a mafia viewer is shown a dead mafia teammate and not the town player
C20_Witness ==
  /\ epc = "viewed" /\ eres.viewer = 2
  /\ est.players[2].alignment = "mafia"
  /\ est.players[3].alignment = "mafia" /\ est.players[3].status = "dead"
  /\ est.players[1].alignment = "town"
  /\ eres.selfRole.teammates = <<(<<3>>)>>

\* ------------------------------------------------------------------------
\* Idempotent resubmission

\* the nightActions entries of one submission
EntriesOf(state, actionId, playerId) ==
  {i \in DOMAIN state.nightActions :
     /\ state.nightActions[i].actionId = actionId
     /\ state.nightActions[i].playerId = playerId}

\* the command received in this step repeats a completed actionId of its player
ResubmitOfCompleted(s, a) ==
  /\ h[s].op = "idle" /\ sock[s] # None /\ sent' = sent + 1
  /\ DedupKey(a, sock[s]) \in DOMAIN dedup
  /\ dedup[DedupKey(a, sock[s])].status = "completed"
  /\ \E type \in ActionTypes, t \in TargetIds : SubmitDedup(s, a, type, t)

\* C21 (checked under SpecSubmit): resubmitting a committed actionId emits the
\* stored ack again, which is the ack of the first execution, leaves the room
\* state as it is, and the one nightActions entry of the submission stays the
\* only one.
C21_ResubmitSameStateSameAck ==
  [][ /\ \A s \in Sockets, a \in ActionIds :
           ResubmitOfCompleted(s, a) =>
             /\ store' = store
             /\ dedup' = dedup
             /\ ackOut' = [socket |-> s, cmd |-> sent',
                           response |-> dedup[DedupKey(a, sock[s])].response]
             /\ ackOut'.response[1] = a
             /\ Cardinality(EntriesOf(store, a, sock[s])) = 1
                  => Cardinality(EntriesOf(store', a, sock[s])) = 1
      /\ \A s \in Sockets :
           SubmitComplete(s) =>
             ackOut'.response = dedup'[DedupKey(h[s].actionId, h[s].playerId)].response
      /\ \A k \in DOMAIN dedup :
           dedup[k].status = "completed" => dedup'[k] = dedup[k]
    ]_vars

\* a completed action has been submitted again and its ack emitted again,
\* with its single entry in nightActions
C21_Witness ==
  \E k \in DOMAIN dedup :
    /\ dedup[k].status = "completed"
    /\ ackOut.response = dedup[k].response
    /\ ackOut.cmd = 2
    /\ ackOut.socket # None
    /\ sock[ackOut.socket] = k[2]
    /\ Cardinality(EntriesOf(store, k[1], k[2])) = 1
    /\ Cardinality(DOMAIN dedup) = 1


\* ------------------------------------------------------------------------
\* Single writer per room

\* instance i acquired the lease and has neither resigned nor seen it lost
HoldsLeadership(i) ==
  inst[i].up /\ (inst[i].renewing \/ inst[i].pc \in {"try_expire", "renew_set", "renew_expire"})

\* C22 (checked under SpecLease): while the leader key exists, at most one
\* instance holds leadership of the room.
C22_AtMostOneLeader ==
  lease.holder # None =>
    \A i, j \in Instances : HoldsLeadership(i) /\ HoldsLeadership(j) => i = j


\* C23 (checked under SpecLease): every commit of the room is made by the
\* instance that holds the room's lease at that moment.
C23_OnlyLeaderCommits ==
  \A w \in written : w.leader # None /\ w.by = w.leader

\* a step of renewLeadership or resignLeadership by instance i
RenewOrResignStep(i) ==
  RenewGet(i) \/ RenewSet(i) \/ RenewExpire(i) \/ ResignGet(i) \/ ResignDel(i)

\* C28 (checked under SpecLease): no step of a renewal or a resignation
\* changes a lease that another instance holds, and a renewal that finds the
\* lease lost stops the renewal interval.
C28_RenewalIsCompareAndSet ==
  [][\A i \in Instances :
       RenewOrResignStep(i) =>
         /\ lease.holder \notin {None, i} => lease' = lease
         /\ lease.holder # i /\ inst[i].pc \in {"idle", "renew_set"} /\ inst[i].renewing
              => ~inst'[i].renewing \/ inst'[i].pc = "resign_del"
    ]_vars


\* C29 (checked under SpecCrash): when the instance named by the lease has
\* stopped, another instance eventually becomes the holder of the lease.
C29_CrashedLeaderReplaced ==
  \A i \in Instances :
    (~inst[i].up /\ lease.holder = i) ~> (lease.holder \notin {None, i})


\* ------------------------------------------------------------------------
\* Latest-wins sessions

\* the resume received in this step is rejected
ResumeRefused(s) ==
  \E sub \in ResumePlayers, sid \in {CurrentSid, StaleSid}, tokenOk \in BOOLEAN :
    /\ ResumeCheck(s, sub, sid, tokenOk)
    /\ ~tokenOk \/ ~isValidSession(sub, sid)

\* C24 (checked under SpecResume): a resume binds the session to its socket,
\* the socket bound before, when it is another one, has been sent
\* session.evicted and is no longer open, the session is still bound to the
\* resuming socket when the resume completes, and a resume with a token or
\* sessionId that does not match is answered UNAUTHORIZED with session and
\* room unchanged.
C24_ResumeLatestWins ==
  [][\A s \in Sockets :
       /\ ResumeUpdate(s) =>
            LET old == session[h[s].playerId].socketId IN
              /\ session'[h[s].playerId].socketId = s
              /\ old # s /\ old \in Sockets => old \in evicted /\ conn[old] # "open"
       /\ ResumeBind(s) => session[h[s].playerId].socketId = s
       /\ ResumeRefused(s) =>
            /\ session' = session /\ store' = store /\ sock' = sock
            /\ resumeOut' = [socket |-> s, code |-> "UNAUTHORIZED"]
    ]_vars


\* ------------------------------------------------------------------------
\* Role distribution

\* the players of state that were given roleId
WithRole(state, roleId) == {id \in DOMAIN state.players : state.players[id].roleId = roleId}

\* C25 (checked under SpecRoles): a started game of N players has exactly one
\* detective, one doctor, max(1, N div 3) mafia and townspeople for the rest,
\* every player holds one of these roles, and a player's alignment is mafia
\* exactly when the role is mafia.
C25_RoleDistribution ==
  epc = "started" =>
    LET N == Cardinality(DOMAIN est.players)
        mafiaCount == IF N \div 3 >= 1 THEN N \div 3 ELSE 1
    IN  /\ N >= 5 /\ N <= est.settings.maxPlayers
        /\ Cardinality(WithRole(est, "detective")) = 1
        /\ Cardinality(WithRole(est, "doctor")) = 1
        /\ Cardinality(WithRole(est, "mafia")) = mafiaCount
        /\ Cardinality(WithRole(est, "townsperson")) = N - 2 - mafiaCount
        /\ \A id \in DOMAIN est.players :
             /\ est.players[id].roleId \in {"detective", "doctor", "mafia", "townsperson"}
             /\ est.players[id].alignment =
                  (IF est.players[id].roleId = "mafia" THEN "mafia" ELSE "town")

\* a game of nine players has started with three mafia
C25_Witness ==
  /\ epc = "started"
  /\ Cardinality(DOMAIN est.players) = 9
  /\ Cardinality(WithRole(est, "mafia")) = 3
  /\ est.phase = "night"


\* ------------------------------------------------------------------------
\* One night action per player

\* C26 (checked under SpecSubmit): nightActions never holds two entries of
\* one player.
C26_OneNightActionPerPlayer ==
  \A i, j \in DOMAIN store.nightActions :
    store.nightActions[i].playerId = store.nightActions[j].playerId => i = j


\* ------------------------------------------------------------------------
\* Processing records are settled

\* the dedup record of (actionId, playerId) has the given status
DedupStatus(a, p, status) ==
  DedupKey(a, p) \in DOMAIN dedup /\ dedup[DedupKey(a, p)].status = status

\* C27 (checked under SpecFaulty): a dedup record marked processing
\* eventually becomes completed or failed.
C27_ProcessingIsSettled ==
  \A a \in ActionIds, p \in 1..MaxPlayers :
    DedupStatus(a, p, "processing")
      ~> (DedupStatus(a, p, "completed") \/ DedupStatus(a, p, "failed"))


\* ------------------------------------------------------------------------
\* Completion predicate

\* the alive players of state with one of the roles
AliveWithRole(state, roles) ==
  {id \in DOMAIN state.players :
     state.players[id].status = "alive" /\ state.players[id].roleId \in roles}

NightSubmitters(state) == {state.nightActions[i].playerId : i \in DOMAIN state.nightActions}

Voters(state) == {state.votes[i].playerId : i \in DOMAIN state.votes}

\* every alive mafia and detective has a night action, in night
NightComplete(state) ==
  state.phase = "night" /\ AliveWithRole(state, {"mafia", "detective"}) \subseteq NightSubmitters(state)

\* every alive player has a vote record, in day_voting
VotingComplete(state) ==
  state.phase = "day_voting" /\ AliveWithRole(state, RoleIds) \subseteq Voters(state)

\* C30 as claimed (checked under SpecCompletion): the predicate is true
\* exactly when the night or the voting is complete, and so false in lobby,
\* day_announcement, day_discussion and ended.
C30_CompleteOnlyInNightAndVoting ==
  epc = "checked" => (eres.complete <=> NightComplete(est) \/ VotingComplete(est))

\* C30 as amended (checked under SpecCompletion): the predicate is true
\* exactly when the night or the voting is complete or the phase is ended;
\* it is false in lobby, day_announcement and day_discussion.
C30_CompleteAlsoWhenEnded ==
  epc = "checked" =>
    /\ eres.complete <=> NightComplete(est) \/ VotingComplete(est) \/ est.phase = "ended"
    /\ est.phase \in {"lobby", "day_announcement", "day_discussion"} => ~eres.complete

\* a night found complete although an alive doctor has not submitted
C30_Witness ==
  /\ epc = "checked" /\ eres.complete
  /\ est.phase = "night"
  /\ AliveWithRole(est, {"doctor"}) \ NightSubmitters(est) # {}
  /\ AliveWithRole(est, {"mafia", "detective"}) # {}

\* ------------------------------------------------------------------------
\* C31

\* the phase the linear progression puts after p
FollowingPhase(p) ==
  IF p = "lobby" THEN "night"
  ELSE IF p = "night" THEN "day_announcement"
  ELSE IF p = "day_announcement" THEN "day_discussion"
  ELSE IF p = "day_discussion" THEN "day_voting"
  ELSE "night"

\* the duration of phase p: 30 s for the announcement, settings otherwise
DurationOf(p, settings) ==
  IF p = "night" THEN settings.nightDurationMs
  ELSE IF p = "day_announcement" THEN 30000
  ELSE IF p = "day_discussion" THEN settings.dayDurationMs
  ELSE settings.voteDurationMs

\* this step applied advancePhase (the clock stands still within a call)
AdvanceCall == epc' = "phase" /\ now' = now

SubmittedBy(state, playerId) ==
  {i \in 1..Len(state.nightActions) : state.nightActions[i].playerId = playerId}

\* C32: a view contains lockedAction if and only if the phase is night and
\* nightActions has an entry whose playerId is the viewer; it then exposes
\* exactly the type and targetId of such an entry.
C32_LockedActionIffSubmitted ==
  epc = "viewed" =>
    LET mine == SubmittedBy(est, eres.viewer)
    IN  /\ (eres.lockedAction # <<>>) <=> (est.phase = "night" /\ mine # {})
        /\ eres.lockedAction # <<>> =>
             \E i \in mine :
               eres.lockedAction[1] = [type |-> est.nightActions[i].type,
                                       targetId |-> est.nightActions[i].targetId]

\* ------------------------------------------------------------------------
\* C33

\* C33 (checked under SpecFallback): without a store client every command
\* is handled as the store-backed handlers handle it: a resume with a valid
\* token for the session registered at join is accepted, and an
\* action.submit or vote.cast takes the step the store-backed handler takes
\* (deduplicated, validated and committed).
C33_FallbackBehavesAsStore ==
  [][\A s \in Sockets :
       /\ \A sub \in ResumePlayers :
            ResumeCheck(s, sub, CurrentSid, TRUE) => h'[s].op = "resume"
       /\ \A a \in ActionIds, type \in ActionTypes, t \in TargetIds :
            FallbackSubmit(s, a, type, t) => SubmitDedup(s, a, type, t)
       /\ \A a \in ActionIds, t \in VoteTargets :
            FallbackVote(s, a, t) => VoteCast(s, a, t)]_vars

\* ------------------------------------------------------------------------
\* C34

\* C34 (checked under SpecKeys): whenever a room's state exists in the
\* store, the mapping of its code exists and holds that room's id, and every
\* code mapping holds the id of a room that is stored or being created with
\* that code.
C34_CodeMappingLivesWithRoom ==
  /\ \A r \in RoomIds :
       roomKey[r].state = "stored" => codeKey[roomKey[r].code].roomId = r
  /\ \A c \in Codes :
       codeKey[c].roomId # None =>
         /\ roomKey[codeKey[c].roomId].state # "absent"
         /\ roomKey[codeKey[c].roomId].code = c

\* ------------------------------------------------------------------------
\* C35

\* C35 (checked under SpecLobby): the commit of a room.join or of an
\* action.submit, which does not advance the phase, leaves phase, timer and
\* hostId of the stored room as they were.
C35_CommitKeepsPhaseAndTimer ==
  [][\A s \in Sockets :
       (JoinWrite(s) \/ (h[s].op = "submit" /\ HandlerCommit(s))) =>
         /\ store'.phase = store.phase
         /\ store'.timer = store.timer
         /\ store'.hostId = store.hostId]_vars

\* ------------------------------------------------------------------------
\* C36

\* this step resolved a night in which nobody had submitted an action
EmptyNightResolved ==
  /\ epc = "phase" /\ epc' = "resolved"
  /\ est.phase = "night" /\ est.nightActions = <<>>

\* C36 (checked under SpecPhase): night resolution of a state with empty
\* nightActions appends "No one died during the night." to publicNarrative
\* and changes nothing else; nobody is killed and nightActions stays empty.
C36_EmptyNightOnlyAddsNarrative ==
  [][EmptyNightResolved =>
       /\ est' = [est EXCEPT !.publicNarrative =
                    Append(@, [who |-> "", text |-> "No one died during the night."])]
       /\ est'.nightActions = <<>>
       /\ eres'.killedPlayerId = None
       /\ eres'.investigationResults = <<>>]_vars

\* the night after a lynching passed without an action: the narrative holds
\* the lynching and, after it, the line of the quiet night
C36_Witness ==
  /\ epc = "resolved" /\ est.phase = "night"
  /\ est.nightActions = <<>>
  /\ Len(est.publicNarrative) = 2
  /\ est.publicNarrative[1].text = "was lynched with"
  /\ est.publicNarrative[2].text = "No one died during the night."
  /\ eres.killedPlayerId = None

\* ------------------------------------------------------------------------
\* C37

\* the room.join on socket s commits in this step
JoinCommitted(s) == JoinWrite(s) /\ UpdateAllowed(h[s].snap)

\* C37 (checked under Spec): a committed room.join adds exactly one player
\* entry under an id the room did not have, leaves every existing entry
\* unchanged, and the player id the socket is bound to (the subject of the
\* issued token) is not the id of a player who was already in the room.
C37_JoinAddsOneNewPlayer ==
  [][\A s \in Sockets :
       JoinCommitted(s) =>
         /\ Cardinality(DOMAIN store'.players) = Cardinality(DOMAIN store.players) + 1
         /\ DOMAIN store.players \subseteq DOMAIN store'.players
         /\ \A id \in DOMAIN store.players : store'.players[id] = store.players[id]
         /\ sock'[s] \notin DOMAIN store.players]_vars

\* ------------------------------------------------------------------------
\* C38

\* the entry the action.submit handler on socket s is about to commit
OwnEntry(s) ==
  CHOOSE e \in Range(h[s].snap.nightActions) : e.actionId = h[s].actionId

\* the handler on socket s commits, and what it commits is the stored
\* nightActions with its own entry put in (no other commit came in between)
SubmitCommitsCurrent(s) ==
  /\ h[s].op = "submit" /\ HandlerCommit(s) /\ UpdateAllowed(h[s].snap)
  /\ h[s].snap.nightActions = Upsert(store.nightActions, OwnEntry(s))

\* C38 (checked under SpecSubmit): the commit of an accepted action.submit
\* by player P keeps every nightActions entry submitted by another player,
\* also when both players chose the same actionId.
C38_OthersEntriesKept ==
  [][\A s \in Sockets :
       SubmitCommitsCurrent(s) =>
         \A e \in Range(store.nightActions) :
           e.playerId # h[s].playerId => e \in Range(store'.nightActions)]_vars

\* ------------------------------------------------------------------------
\* C39

\* the resume on socket s has completed, sockets were evicted, and every
\* handler, the disconnect handlers of the evicted sockets included, has run
\* to its end
ResumeAndDisconnectDone(s) ==
  /\ resumeOut = [socket |-> s, code |-> "snapshot"]
  /\ sock[s] # None /\ conn[s] = "open"
  /\ evicted # {}
  /\ \A t \in evicted : conn[t] = "closed" /\ sock[t] = sock[s]
  /\ \A t \in Sockets : h[t].op = "idle" /\ conn[t] # "closing"

\* C39 (checked under SpecResume): once a session.resume that evicted the
\* player's prior socket and that socket's disconnect handler have both
\* completed, the player's connected flag in the stored room is true.
C39_ResumedPlayerIsConnected ==
  \A s \in Sockets :
    ResumeAndDisconnectDone(s) => store.players[sock[s]].connected

\* ------------------------------------------------------------------------
\* C40

\* the action passes the checks of its process function: target and actor
\* are alive players of the room and the actor may act so
PassesValidation(state, a) ==
  /\ AliveIn(state, a.targetId)
  /\ AliveIn(state, a.playerId)
  /\ \/ a.type = "KILL" /\ state.players[a.playerId].alignment = "mafia"
     \/ a.type = "PROTECT" /\ state.players[a.playerId].roleId = "doctor"
     \/ a.type = "INVESTIGATE" /\ state.players[a.playerId].roleId = "detective"

WithoutInvalidActions(state) ==
  [state EXCEPT !.nightActions = SelectSeq(@, LAMBDA a : PassesValidation(state, a))]

\* C40 (checked under SpecNight): the outcome of night resolution (killed
\* player, investigation results, narrative) is the outcome of resolving
\* the same state with every invalid action removed.
C40_InvalidActionsIgnored ==
  epc = "resolved" =>
    NightOutcome(eres) = NightOutcome(resolveNightActions(WithoutInvalidActions(est)))
====
